---- MODULE Spec2Model ----
(***************************************************************************)
(* A model of the deepbots-evo cart-pole controllers:                      *)
(*   - the multi-robot discrete CartPoleRobot controller                   *)
(*     (examples/multi_cartpole/controllers/robot_controller),             *)
(*   - the continuous CartPoleSupervisor environment                       *)
(*     (examples/cartpole/cartpole_continuous/controllers/supervisor_manager)*)
(* The readings of the devices (angles, positions, velocities) and the     *)
(* wheel speeds of the multi-robot controller are integers in units of     *)
(* 1/1000 (milli), rounded values are in units of 1/100 (centi),           *)
(* thresholds are compared in units of 1e-9 (nano). What float() returns   *)
(* is an IEEE 754 double, kept exactly. Text is a sequence of              *)
(* one-character strings.                                                  *)
(***************************************************************************)
EXTENDS Integers, Sequences, FiniteSets, TLC

VARIABLES
    \* ---- CartPoleRobot controller process ----
    controller,      \* which robot_controller.py runs: "multi" or "continuous"
    pc,              \* position of the controller process
    name,            \* self.robot.getName()
    robot_num,       \* self.robot_num
    emitterChannel,  \* channel set on the emitter device
    receiverChannel, \* channel set on the receiver device
    wheels,          \* velocity set on wheel1..wheel4 (milli rad/s)
    queue,           \* the receiver's queue of frames
    sensor,          \* positionSensor.getValue() (milli rad)
    stepResult,      \* what robot.step returned last
    err,             \* the exception that ended the process, or "none"
    sent,            \* frames handed to emitter.send in the current tick
    ticks,           \* number of robot.step calls so far
    tickLog,         \* actuator/emitter calls of the current tick, in order
    wheelsAtDrain,   \* wheels when the current tick's drain began
    queueAtDrain,    \* queue when the current tick's drain began
    lastAction,      \* the action of the last command applied, -1 before any
    \* ---- several robots being constructed (channel assignment) ----
    fleetNames,      \* robot -> name
    fleetChannel,    \* robot -> [emitter, receiver] channel, or unset
    \* ---- CartPoleSupervisor ----
    messageReceived, \* self.messageReceived
    episodeScore,    \* self.episodeScore
    cartX,           \* self.robot.getPosition()[0] (milli)
    cartV,           \* self.robot.getVelocity()[0] (milli)
    tipV,            \* self.poleEndpoint.getVelocity()[4] (milli)
    lastObs,         \* last value returned by get_observations / reset
    lastDone,        \* last value returned by is_done
    supCall,         \* the supervisor method that ran last
    supErr,          \* the exception that ended the supervisor, or "none"
    supRecv,         \* what handle_receiver returned in the last get_observations
    hadFrame,        \* an earlier get_observations call received a frame
    \* ---- CartPoleSupervisor.solved ----
    episodeScoreList,\* self.episodeScoreList
    solvedResult,    \* last value returned by solved()
    appended,        \* scores appended since the history was drawn
    \* ---- one training episode of the orchestrator ----
    epStep,          \* steps taken in the current episode
    epPhase,         \* "running", or how the step loop ended: "done", "cap"
    \* ---- message codec ----
    codecIn,         \* the list handed to the encoder
    codecFrame,      \* the encoded frame
    codecOut,        \* the decoded list
    codecPc          \* "in", "encoded" or "decoded"

robotVars == <<controller, pc, name, robot_num, emitterChannel, receiverChannel, wheels,
               queue, sensor, stepResult, err, sent, ticks, tickLog,
               wheelsAtDrain, queueAtDrain, lastAction>>
fleetVars == <<fleetNames, fleetChannel>>
supVars == <<messageReceived, episodeScore, cartX, cartV, tipV, lastObs,
             lastDone, supCall, supErr, supRecv, hadFrame>>
solvedVars == <<episodeScoreList, solvedResult, appended>>
codecVars == <<codecIn, codecFrame, codecOut, codecPc>>
episodeVars == <<epStep, epPhase>>
vars == <<robotVars, fleetVars, supVars, solvedVars, codecVars, episodeVars>>

(***************************************************************************)
(* Bounds of the model.                                                    *)
(***************************************************************************)
MaxQueue == 3        \* frames that can be queued for a robot in one tick
MaxTicks == 2        \* robot.step calls explored
NumRobots == 2       \* robots constructed side by side
MaxRobotIndex == 11  \* robot names are robot0 .. robot<MaxRobotIndex>
MaxOld == 2          \* scores older than the window in a drawn history
MaxNew == 2          \* scores of a third run in a drawn history
MaxAppend == 1       \* scores appended to a drawn history
MaxFields == 3       \* fields of a list handed to the encoder

(***************************************************************************)
(* Text: characters, decimal numerals, str(), int(), split, join.          *)
(***************************************************************************)
DigitSeq == <<"0", "1", "2", "3", "4", "5", "6", "7", "8", "9">>
DigitChars == {DigitSeq[i] : i \in 1..10}
DigitChar(d) == DigitSeq[d + 1]
DigitVal(c) == CHOOSE d \in 0..9 : DigitSeq[d + 1] = c

Last(s) == s[Len(s)]

\* str(n) for an int n >= 0
RECURSIVE NatStr(_)
NatStr(n) == IF n < 10 THEN <<DigitChar(n)>>
             ELSE NatStr(n \div 10) \o <<DigitChar(n % 10)>>

\* str(n) for an int
IntStr(n) == IF n < 0 THEN <<"-">> \o NatStr(-n) ELSE NatStr(n)

\* A character is a one-character string; a code point that has no such
\* string in this notation is written by its name, "U+" and its number in
\* four or five hexadecimal digits ("U+0660", "U+1D7CE").

\* A value that an expression refers to more than once is named and taken
\* as the one element of a set, so that it is computed once:
\*     CHOOSE only \in {e(x) : x \in {v}} : TRUE
\* is e(v). The expression stands first and the value it names after it.

\* The white space int(), float() and str.strip() remove around a numeral:
\* tab, line feed, vertical tab, form feed, carriage return, space, next
\* line, no-break space and the Unicode spaces and separators.
WhiteSpace == {"\t", "\n", "U+000B", "\f", "\r", " ", "U+0085", "U+00A0",
               "U+1680", "U+2000", "U+2001", "U+2002", "U+2003", "U+2004",
               "U+2005", "U+2006", "U+2007", "U+2008", "U+2009", "U+200A",
               "U+2028", "U+2029", "U+202F", "U+205F", "U+3000"}

\* The decimal digits int() and float() take: the characters of the Unicode
\* category Nd, ten consecutive code points per script, zero first.
DecimalRows ==
    <<DigitSeq,
      <<"U+0660", "U+0661", "U+0662", "U+0663", "U+0664", "U+0665", "U+0666", "U+0667", "U+0668", "U+0669">>,
      <<"U+06F0", "U+06F1", "U+06F2", "U+06F3", "U+06F4", "U+06F5", "U+06F6", "U+06F7", "U+06F8", "U+06F9">>,
      <<"U+07C0", "U+07C1", "U+07C2", "U+07C3", "U+07C4", "U+07C5", "U+07C6", "U+07C7", "U+07C8", "U+07C9">>,
      <<"U+0966", "U+0967", "U+0968", "U+0969", "U+096A", "U+096B", "U+096C", "U+096D", "U+096E", "U+096F">>,
      <<"U+09E6", "U+09E7", "U+09E8", "U+09E9", "U+09EA", "U+09EB", "U+09EC", "U+09ED", "U+09EE", "U+09EF">>,
      <<"U+0A66", "U+0A67", "U+0A68", "U+0A69", "U+0A6A", "U+0A6B", "U+0A6C", "U+0A6D", "U+0A6E", "U+0A6F">>,
      <<"U+0AE6", "U+0AE7", "U+0AE8", "U+0AE9", "U+0AEA", "U+0AEB", "U+0AEC", "U+0AED", "U+0AEE", "U+0AEF">>,
      <<"U+0B66", "U+0B67", "U+0B68", "U+0B69", "U+0B6A", "U+0B6B", "U+0B6C", "U+0B6D", "U+0B6E", "U+0B6F">>,
      <<"U+0BE6", "U+0BE7", "U+0BE8", "U+0BE9", "U+0BEA", "U+0BEB", "U+0BEC", "U+0BED", "U+0BEE", "U+0BEF">>,
      <<"U+0C66", "U+0C67", "U+0C68", "U+0C69", "U+0C6A", "U+0C6B", "U+0C6C", "U+0C6D", "U+0C6E", "U+0C6F">>,
      <<"U+0CE6", "U+0CE7", "U+0CE8", "U+0CE9", "U+0CEA", "U+0CEB", "U+0CEC", "U+0CED", "U+0CEE", "U+0CEF">>,
      <<"U+0D66", "U+0D67", "U+0D68", "U+0D69", "U+0D6A", "U+0D6B", "U+0D6C", "U+0D6D", "U+0D6E", "U+0D6F">>,
      <<"U+0DE6", "U+0DE7", "U+0DE8", "U+0DE9", "U+0DEA", "U+0DEB", "U+0DEC", "U+0DED", "U+0DEE", "U+0DEF">>,
      <<"U+0E50", "U+0E51", "U+0E52", "U+0E53", "U+0E54", "U+0E55", "U+0E56", "U+0E57", "U+0E58", "U+0E59">>,
      <<"U+0ED0", "U+0ED1", "U+0ED2", "U+0ED3", "U+0ED4", "U+0ED5", "U+0ED6", "U+0ED7", "U+0ED8", "U+0ED9">>,
      <<"U+0F20", "U+0F21", "U+0F22", "U+0F23", "U+0F24", "U+0F25", "U+0F26", "U+0F27", "U+0F28", "U+0F29">>,
      <<"U+1040", "U+1041", "U+1042", "U+1043", "U+1044", "U+1045", "U+1046", "U+1047", "U+1048", "U+1049">>,
      <<"U+1090", "U+1091", "U+1092", "U+1093", "U+1094", "U+1095", "U+1096", "U+1097", "U+1098", "U+1099">>,
      <<"U+17E0", "U+17E1", "U+17E2", "U+17E3", "U+17E4", "U+17E5", "U+17E6", "U+17E7", "U+17E8", "U+17E9">>,
      <<"U+1810", "U+1811", "U+1812", "U+1813", "U+1814", "U+1815", "U+1816", "U+1817", "U+1818", "U+1819">>,
      <<"U+1946", "U+1947", "U+1948", "U+1949", "U+194A", "U+194B", "U+194C", "U+194D", "U+194E", "U+194F">>,
      <<"U+19D0", "U+19D1", "U+19D2", "U+19D3", "U+19D4", "U+19D5", "U+19D6", "U+19D7", "U+19D8", "U+19D9">>,
      <<"U+1A80", "U+1A81", "U+1A82", "U+1A83", "U+1A84", "U+1A85", "U+1A86", "U+1A87", "U+1A88", "U+1A89">>,
      <<"U+1A90", "U+1A91", "U+1A92", "U+1A93", "U+1A94", "U+1A95", "U+1A96", "U+1A97", "U+1A98", "U+1A99">>,
      <<"U+1B50", "U+1B51", "U+1B52", "U+1B53", "U+1B54", "U+1B55", "U+1B56", "U+1B57", "U+1B58", "U+1B59">>,
      <<"U+1BB0", "U+1BB1", "U+1BB2", "U+1BB3", "U+1BB4", "U+1BB5", "U+1BB6", "U+1BB7", "U+1BB8", "U+1BB9">>,
      <<"U+1C40", "U+1C41", "U+1C42", "U+1C43", "U+1C44", "U+1C45", "U+1C46", "U+1C47", "U+1C48", "U+1C49">>,
      <<"U+1C50", "U+1C51", "U+1C52", "U+1C53", "U+1C54", "U+1C55", "U+1C56", "U+1C57", "U+1C58", "U+1C59">>,
      <<"U+A620", "U+A621", "U+A622", "U+A623", "U+A624", "U+A625", "U+A626", "U+A627", "U+A628", "U+A629">>,
      <<"U+A8D0", "U+A8D1", "U+A8D2", "U+A8D3", "U+A8D4", "U+A8D5", "U+A8D6", "U+A8D7", "U+A8D8", "U+A8D9">>,
      <<"U+A900", "U+A901", "U+A902", "U+A903", "U+A904", "U+A905", "U+A906", "U+A907", "U+A908", "U+A909">>,
      <<"U+A9D0", "U+A9D1", "U+A9D2", "U+A9D3", "U+A9D4", "U+A9D5", "U+A9D6", "U+A9D7", "U+A9D8", "U+A9D9">>,
      <<"U+A9F0", "U+A9F1", "U+A9F2", "U+A9F3", "U+A9F4", "U+A9F5", "U+A9F6", "U+A9F7", "U+A9F8", "U+A9F9">>,
      <<"U+AA50", "U+AA51", "U+AA52", "U+AA53", "U+AA54", "U+AA55", "U+AA56", "U+AA57", "U+AA58", "U+AA59">>,
      <<"U+ABF0", "U+ABF1", "U+ABF2", "U+ABF3", "U+ABF4", "U+ABF5", "U+ABF6", "U+ABF7", "U+ABF8", "U+ABF9">>,
      <<"U+FF10", "U+FF11", "U+FF12", "U+FF13", "U+FF14", "U+FF15", "U+FF16", "U+FF17", "U+FF18", "U+FF19">>,
      <<"U+104A0", "U+104A1", "U+104A2", "U+104A3", "U+104A4", "U+104A5", "U+104A6", "U+104A7", "U+104A8", "U+104A9">>,
      <<"U+10D30", "U+10D31", "U+10D32", "U+10D33", "U+10D34", "U+10D35", "U+10D36", "U+10D37", "U+10D38", "U+10D39">>,
      <<"U+11066", "U+11067", "U+11068", "U+11069", "U+1106A", "U+1106B", "U+1106C", "U+1106D", "U+1106E", "U+1106F">>,
      <<"U+110F0", "U+110F1", "U+110F2", "U+110F3", "U+110F4", "U+110F5", "U+110F6", "U+110F7", "U+110F8", "U+110F9">>,
      <<"U+11136", "U+11137", "U+11138", "U+11139", "U+1113A", "U+1113B", "U+1113C", "U+1113D", "U+1113E", "U+1113F">>,
      <<"U+111D0", "U+111D1", "U+111D2", "U+111D3", "U+111D4", "U+111D5", "U+111D6", "U+111D7", "U+111D8", "U+111D9">>,
      <<"U+112F0", "U+112F1", "U+112F2", "U+112F3", "U+112F4", "U+112F5", "U+112F6", "U+112F7", "U+112F8", "U+112F9">>,
      <<"U+11450", "U+11451", "U+11452", "U+11453", "U+11454", "U+11455", "U+11456", "U+11457", "U+11458", "U+11459">>,
      <<"U+114D0", "U+114D1", "U+114D2", "U+114D3", "U+114D4", "U+114D5", "U+114D6", "U+114D7", "U+114D8", "U+114D9">>,
      <<"U+11650", "U+11651", "U+11652", "U+11653", "U+11654", "U+11655", "U+11656", "U+11657", "U+11658", "U+11659">>,
      <<"U+116C0", "U+116C1", "U+116C2", "U+116C3", "U+116C4", "U+116C5", "U+116C6", "U+116C7", "U+116C8", "U+116C9">>,
      <<"U+11730", "U+11731", "U+11732", "U+11733", "U+11734", "U+11735", "U+11736", "U+11737", "U+11738", "U+11739">>,
      <<"U+118E0", "U+118E1", "U+118E2", "U+118E3", "U+118E4", "U+118E5", "U+118E6", "U+118E7", "U+118E8", "U+118E9">>,
      <<"U+11950", "U+11951", "U+11952", "U+11953", "U+11954", "U+11955", "U+11956", "U+11957", "U+11958", "U+11959">>,
      <<"U+11C50", "U+11C51", "U+11C52", "U+11C53", "U+11C54", "U+11C55", "U+11C56", "U+11C57", "U+11C58", "U+11C59">>,
      <<"U+11D50", "U+11D51", "U+11D52", "U+11D53", "U+11D54", "U+11D55", "U+11D56", "U+11D57", "U+11D58", "U+11D59">>,
      <<"U+11DA0", "U+11DA1", "U+11DA2", "U+11DA3", "U+11DA4", "U+11DA5", "U+11DA6", "U+11DA7", "U+11DA8", "U+11DA9">>,
      <<"U+16A60", "U+16A61", "U+16A62", "U+16A63", "U+16A64", "U+16A65", "U+16A66", "U+16A67", "U+16A68", "U+16A69">>,
      <<"U+16AC0", "U+16AC1", "U+16AC2", "U+16AC3", "U+16AC4", "U+16AC5", "U+16AC6", "U+16AC7", "U+16AC8", "U+16AC9">>,
      <<"U+16B50", "U+16B51", "U+16B52", "U+16B53", "U+16B54", "U+16B55", "U+16B56", "U+16B57", "U+16B58", "U+16B59">>,
      <<"U+1D7CE", "U+1D7CF", "U+1D7D0", "U+1D7D1", "U+1D7D2", "U+1D7D3", "U+1D7D4", "U+1D7D5", "U+1D7D6", "U+1D7D7">>,
      <<"U+1D7D8", "U+1D7D9", "U+1D7DA", "U+1D7DB", "U+1D7DC", "U+1D7DD", "U+1D7DE", "U+1D7DF", "U+1D7E0", "U+1D7E1">>,
      <<"U+1D7E2", "U+1D7E3", "U+1D7E4", "U+1D7E5", "U+1D7E6", "U+1D7E7", "U+1D7E8", "U+1D7E9", "U+1D7EA", "U+1D7EB">>,
      <<"U+1D7EC", "U+1D7ED", "U+1D7EE", "U+1D7EF", "U+1D7F0", "U+1D7F1", "U+1D7F2", "U+1D7F3", "U+1D7F4", "U+1D7F5">>,
      <<"U+1D7F6", "U+1D7F7", "U+1D7F8", "U+1D7F9", "U+1D7FA", "U+1D7FB", "U+1D7FC", "U+1D7FD", "U+1D7FE", "U+1D7FF">>,
      <<"U+1E140", "U+1E141", "U+1E142", "U+1E143", "U+1E144", "U+1E145", "U+1E146", "U+1E147", "U+1E148", "U+1E149">>,
      <<"U+1E2F0", "U+1E2F1", "U+1E2F2", "U+1E2F3", "U+1E2F4", "U+1E2F5", "U+1E2F6", "U+1E2F7", "U+1E2F8", "U+1E2F9">>,
      <<"U+1E950", "U+1E951", "U+1E952", "U+1E953", "U+1E954", "U+1E955", "U+1E956", "U+1E957", "U+1E958", "U+1E959">>,
      <<"U+1FBF0", "U+1FBF1", "U+1FBF2", "U+1FBF3", "U+1FBF4", "U+1FBF5", "U+1FBF6", "U+1FBF7", "U+1FBF8", "U+1FBF9">>>>

\* every decimal digit, and the digit each one stands for
DecimalChars == UNION {{DecimalRows[r][i] : i \in 1..10} : r \in 1..Len(DecimalRows)}
DecimalTable == [c \in DecimalChars |->
                    CHOOSE d \in 0..9 :
                        \E r \in 1..Len(DecimalRows) : DecimalRows[r][d + 1] = c]

\* the white space removed from both ends of a text
Strip(s) ==
    IF \A i \in 1..Len(s) : s[i] \in WhiteSpace THEN <<>>
    ELSE SubSeq(s,
                CHOOSE i \in 1..Len(s) :
                    s[i] \notin WhiteSpace /\ \A j \in 1..(i - 1) : s[j] \in WhiteSpace,
                Len(s) + 1 - (CHOOSE k \in 1..Len(s) :
                    /\ s[Len(s) + 1 - k] \notin WhiteSpace
                    /\ \A j \in 1..(k - 1) : s[Len(s) + 1 - j] \in WhiteSpace))

\* digits with single underscores between them: "1", "1_0", not "_1", "1__0"
DigitGroup(s) ==
    /\ Len(s) > 0
    /\ \A i \in 1..Len(s) :
          \/ s[i] \in DecimalChars
          \/ /\ s[i] = "_"
             /\ 1 < i /\ i < Len(s)
             /\ s[i - 1] \in DecimalChars /\ s[i + 1] \in DecimalChars

\* the digits of a digit group, as numbers
GroupDigits(s) ==
    (CHOOSE only \in {
         [i \in 1..Len(ds) |-> DecimalTable[ds[i]]]
       : ds \in {SelectSeq(s, LAMBDA c : c # "_")}} : TRUE)

\* leading zeros dropped
DropZeros(ds) ==
    (CHOOSE only \in {
         IF \A i \in 1..Len(d) : d[i] = 0 THEN <<>>
         ELSE SubSeq(d, CHOOSE i \in 1..Len(d) :
                            d[i] # 0 /\ \A j \in 1..(i - 1) : d[j] = 0,
                     Len(d))
       : d \in {ds}} : TRUE)

RECURSIVE NatOf(_)
NatOf(ds) == IF Len(ds) = 0 THEN 0
             ELSE 10 * (CHOOSE only \in {
                            NatOf(front)
                          : front \in {SubSeq(ds, 1, Len(ds) - 1)}} : TRUE)
                  + ds[Len(ds)]

\* An int of up to nine digits is kept as a number; a longer one is kept by
\* its digits and, as a number, cut to IntCap, which no test of the
\* controllers tells from the int itself.
IntCap == 1000 * 1000 * 1000
IntDigits == 9
\* the value of digits without leading zeros
CappedNat(ds) == IF Len(ds) <= IntDigits THEN NatOf(ds) ELSE IntCap

\* int() refuses a numeral of more than 4300 digits (sys.int_info
\* .default_max_str_digits); leading zeros count, underscores do not
MaxStrDigits == 4300

\* what int() raises
NotAnInt == [ok |-> FALSE, val |-> 0, exact |-> TRUE, neg |-> FALSE, digits |-> <<>>]

\* int() of a text without white space around it: an optional sign, then a
\* digit group of at most MaxStrDigits digits; anything else is a
\* ValueError. The int is the sign neg and the decimal digits without
\* leading zeros; val is the int itself when exact, and cut to IntCap when
\* it has more than IntDigits digits.
IntOfStripped(t) ==
    LET signed == Len(t) > 0 /\ t[1] \in {"-", "+"}
        body == IF signed THEN Tail(t) ELSE t
    IN  IF DigitGroup(body)
        THEN (CHOOSE only \in {
                  IF Len(all) > MaxStrDigits THEN NotAnInt
                  ELSE (CHOOSE only \in {
                            [ok |-> TRUE,
                             val |-> IF signed /\ t[1] = "-" THEN -CappedNat(ds)
                                     ELSE CappedNat(ds),
                             exact |-> Len(ds) <= IntDigits,
                             neg |-> signed /\ t[1] = "-" /\ ds # <<>>,
                             digits |-> ds]
                          : ds \in {DropZeros(all)}} : TRUE)
                : all \in {GroupDigits(body)}} : TRUE)
        ELSE NotAnInt

\* int(tok): white space is stripped first
ParseInt(tok) == (CHOOSE only \in {
                      (CHOOSE only \in {
                           IntOfStripped(y)
                         : y \in {Strip(s)}} : TRUE)
                    : s \in {tok}} : TRUE)

\* frame.split(","): always at least one token
RECURSIVE Split(_)
Split(frame) ==
    IF \A i \in 1..Len(frame) : frame[i] # ","
    THEN <<frame>>
    ELSE LET k == CHOOSE i \in 1..Len(frame) :
                     frame[i] = "," /\ \A j \in 1..(i - 1) : frame[j] # ","
         IN  <<SubSeq(frame, 1, k - 1)>> \o Split(SubSeq(frame, k + 1, Len(frame)))

\* ",".join(strs)
RECURSIVE Join(_)
Join(strs) ==
    IF Len(strs) = 0 THEN <<>>
    ELSE IF Len(strs) = 1 THEN strs[1]
    ELSE strs[1] \o <<",">> \o Join(Tail(strs))

(***************************************************************************)
(* Scalars and str().  A scalar is an int, a float (in milli units) or a   *)
(* str; str() of a float prints the shortest decimal, as Python does for   *)
(* values with at most three decimals (0 -> "0.0", 270 -> "0.27").         *)
(***************************************************************************)
IntScalar(n) == [kind |-> "int", num |-> n, text |-> <<>>]
FloatScalar(m) == [kind |-> "float", num |-> m, text |-> <<>>]
StrScalar(t) == [kind |-> "str", num |-> 0, text |-> t]

\* the fraction digits of str(float): three digits, trailing zeros dropped
FracStr(f) ==
    IF f % 100 = 0 THEN <<DigitChar(f \div 100)>>
    ELSE IF f % 10 = 0 THEN <<DigitChar(f \div 100), DigitChar((f \div 10) % 10)>>
    ELSE <<DigitChar(f \div 100), DigitChar((f \div 10) % 10), DigitChar(f % 10)>>

\* str(x) of a float x = m / 1000
FormatMilli(m) ==
    LET a == IF m < 0 THEN -m ELSE m
    IN  (IF m < 0 THEN <<"-">> ELSE <<>>)
        \o NatStr(a \div 1000) \o <<".">> \o FracStr(a % 1000)

Str(x) == CASE x.kind = "int" -> IntStr(x.num)
            [] x.kind = "float" -> FormatMilli(x.num)
            [] x.kind = "str" -> x.text

(***************************************************************************)
(* The multi-robot CartPoleRobot controller.                               *)
(***************************************************************************)
RobotName(i) == <<"r", "o", "b", "o", "t">> \o NatStr(i)

\* robot_num = int(self.robot.getName()[-1])
RobotNum(n) == ParseInt(<<Last(n)>>)

MotorSpeedForward == 5000     \* motorSpeed = 5.0
MotorSpeedBackward == -5000   \* motorSpeed = -5.0
NumWheels == 4

\* setup_motors: every wheel gets velocity 0.0
SetupMotors == [i \in 1..NumWheels |-> 0]

\* create_message of the multi-robot controller: [positionSensor.getValue()]
CreateMessage(s) == <<FloatScalar(s)>>

\* the encoder of handle_emitter: ",".join(map(str, data))
Encode(data) == Join([i \in 1..Len(data) |-> Str(data[i])])

\* a decoder that drops empty tokens, as message.split() does for blanks
DecodeDropEmpty(frame) == SelectSeq(Split(frame), LAMBDA t : Len(t) > 0)

\* the decoder of handle_receiver: message.split(",")
Decode(frame) == Split(frame)

\* use_message_data with the assertion left out: any other value drives backward
UseMessageDataNoAssert(w, message) ==
    LET action == ParseInt(message[1])
    IN  IF ~action.ok THEN [wheels |-> w, raised |-> "ValueError"]
        ELSE [wheels |-> [i \in 1..NumWheels |->
                             IF action.val = 0 THEN 5000 ELSE -5000],
              raised |-> "none"]

\* use_message_data with a loop that stops one wheel short
UseMessageDataThreeWheels(w, message) ==
    LET action == ParseInt(message[1])
    IN  IF ~action.ok THEN [wheels |-> w, raised |-> "ValueError"]
        ELSE IF ~(action.val = 0 \/ action.val = 1)
        THEN [wheels |-> w, raised |-> "AssertionError"]
        ELSE [wheels |-> [i \in 1..4 |->
                             IF i = 4 THEN w[i]
                             ELSE IF action.val = 0 THEN 5000 ELSE -5000],
              raised |-> "none"]

\* use_message_data: the wheels after the call and the exception it raised
UseMessageData(w, message) ==
    LET action == ParseInt(message[1])
    IN  IF ~action.ok THEN [wheels |-> w, raised |-> "ValueError"]
        ELSE IF ~(action.val = 0 \/ action.val = 1)
        THEN [wheels |-> w, raised |-> "AssertionError"]
        ELSE LET motorSpeed == IF action.val = 0 THEN MotorSpeedForward
                               ELSE MotorSpeedBackward
             IN  [wheels |-> [i \in 1..NumWheels |-> motorSpeed],
                  raised |-> "none"]

\* receiver.getData(): the packet at the head of the queue
GetData(q) == Head(q)

\* a nextPacket that discards the whole backlog
NextPacketClear(q) == <<>>

\* receiver.nextPacket(): the head packet is dropped
NextPacket(q) == Tail(q)

\* a run loop that sends before it receives
RunNextEmitFirst(at) == CASE at = "step" -> "emit"
                          [] at = "emit" -> "recv"
                          [] at = "recv" -> "step"

\* a run loop that never calls handle_emitter
RunNextSkipEmit(at) == CASE at = "step" -> "recv"
                         [] at = "recv" -> "step"
                         [] at = "emit" -> "step"

\* the order of the run loop: step, then handle_receiver, then handle_emitter
RunNext(at) == CASE at = "step" -> "recv"
                 [] at = "recv" -> "emit"
                 [] at = "emit" -> "step"

\* the run loop's test with the base controller's "!= -1"
LoopContinuesBase(r) == r # -1

\* while self.robot.step(self.timestep) != 1
LoopContinues(r) == r # 1

\* inputs of a tick
StepResults == {-1, 0, 1}
CommandFrames == {<<"0">>, <<"1">>, <<"2">>, <<"x">>,
                  <<" ", "0", "_", "1", ",", "0">>}
SensorValues == {0, 263}
SeqsUpTo(S, n) == UNION {[1..k -> S] : k \in 0..n}

RobotInit ==
    /\ controller = "multi"
    /\ name \in {RobotName(i) : i \in {1, MaxRobotIndex}}
    /\ robot_num = RobotNum(name).val
    /\ emitterChannel = robot_num
    /\ receiverChannel = robot_num
    /\ wheels = SetupMotors
    /\ queue = <<>>
    /\ sensor = 0
    /\ stepResult = 0
    /\ err = "none"
    /\ sent = <<>>
    /\ ticks = 0
    /\ tickLog = <<>>
    /\ wheelsAtDrain = SetupMotors
    /\ queueAtDrain = <<>>
    /\ lastAction = -1
    /\ pc = "step"

\* while self.robot.step(self.timestep) != 1: the simulator advances one tick,
\* delivers the frames sent to the robot's channel and updates the sensor
StepOn(frames) ==
    /\ pc = "step"
    /\ ticks < MaxTicks
    /\ \E r \in StepResults, arrived \in SeqsUpTo(frames, MaxQueue),
          s \in SensorValues :
          /\ stepResult' = r
          /\ queue' = queue \o arrived
          /\ sensor' = s
          /\ pc' = IF LoopContinues(r) THEN RunNext("step") ELSE "exited"
    /\ ticks' = ticks + 1
    /\ sent' = <<>>
    /\ tickLog' = <<>>
    /\ wheelsAtDrain' = wheels
    /\ queueAtDrain' = queue'
    /\ UNCHANGED <<controller, name, robot_num, emitterChannel, receiverChannel, wheels, err,
                   lastAction>>

\* a tick with any of the command frames arriving
Step == StepOn(CommandFrames)

\* a tick with the two commands or a malformed frame arriving
DrainFrames == {<<"0">>, <<"1">>, <<"x">>}
StepDrain == StepOn(DrainFrames)

\* handle_receiver reading one packet per tick ("if" in place of "while")
RecvIterOnce ==
    /\ pc = "recv"
    /\ Len(queue) > 0
    /\ LET res == UseMessageData(wheels, Split(Head(queue)))
       IN  IF res.raised # "none"
           THEN /\ err' = res.raised
                /\ pc' = "crashed"
                /\ UNCHANGED <<wheels, queue, tickLog, lastAction>>
           ELSE /\ wheels' = res.wheels
                /\ tickLog' = Append(tickLog, "apply")
                /\ lastAction' = ParseInt(Split(Head(queue))[1]).val
                /\ queue' = Tail(queue)
                /\ pc' = "emit"
                /\ UNCHANGED err
    /\ UNCHANGED <<controller, name, robot_num, emitterChannel, receiverChannel, sensor,
                   stepResult, sent, ticks, wheelsAtDrain, queueAtDrain>>

\* one iteration of handle_receiver's while loop
RecvIter ==
    /\ pc = "recv"
    /\ Len(queue) > 0
    /\ LET message == Decode(GetData(queue))
           res == UseMessageData(wheels, message)
       IN  IF res.raised # "none"
           THEN /\ err' = res.raised
                /\ pc' = "crashed"
                /\ UNCHANGED <<wheels, queue, tickLog, lastAction>>
           ELSE /\ wheels' = res.wheels
                /\ tickLog' = Append(tickLog, "apply")
                /\ lastAction' = ParseInt(message[1]).val
                /\ queue' = NextPacket(queue)
                /\ UNCHANGED <<err, pc>>
    /\ UNCHANGED <<controller, name, robot_num, emitterChannel, receiverChannel, sensor,
                   stepResult, sent, ticks, wheelsAtDrain, queueAtDrain>>

\* handle_receiver stopping the motors when nothing is queued
RecvDoneStop ==
    /\ pc = "recv"
    /\ Len(queue) = 0
    /\ wheels' = [i \in 1..4 |-> 0]
    /\ tickLog' = Append(tickLog, "apply")
    /\ pc' = "emit"
    /\ UNCHANGED <<controller, name, robot_num, emitterChannel, receiverChannel,
                   queue, sensor, stepResult, err, sent, ticks,
                   wheelsAtDrain, queueAtDrain, lastAction>>

\* handle_receiver returns: the queue is empty
RecvDone ==
    /\ pc = "recv"
    /\ Len(queue) = 0
    /\ pc' = RunNext("recv")
    /\ UNCHANGED <<controller, name, robot_num, emitterChannel, receiverChannel, wheels,
                   queue, sensor, stepResult, err, sent, ticks, tickLog,
                   wheelsAtDrain, queueAtDrain, lastAction>>

\* handle_emitter switching the emitter to channel 0 before it sends
EmitOnChannelZero ==
    /\ pc = "emit"
    /\ emitterChannel' = 0
    /\ sent' = Append(sent, Encode(CreateMessage(sensor)))
    /\ tickLog' = Append(tickLog, "send")
    /\ pc' = "step"
    /\ UNCHANGED <<controller, name, robot_num, receiverChannel, wheels,
                   queue, sensor, stepResult, err, ticks, wheelsAtDrain,
                   queueAtDrain, lastAction>>

\* handle_emitter: read the sensor, encode, send
Emit ==
    /\ pc = "emit"
    /\ sent' = Append(sent, Encode(CreateMessage(sensor)))
    /\ tickLog' = Append(tickLog, "send")
    /\ pc' = RunNext("emit")
    /\ UNCHANGED <<controller, name, robot_num, emitterChannel, receiverChannel, wheels,
                   queue, sensor, stepResult, err, ticks, wheelsAtDrain,
                   queueAtDrain, lastAction>>

(***************************************************************************)
(* Several robots of the multi-robot world, each running the constructor.  *)
(***************************************************************************)
Robots == 1..NumRobots
RobotNames == {RobotName(i) : i \in 0..MaxRobotIndex}
Unset == [set |-> FALSE, emitter |-> 0, receiver |-> 0]

\* __init__: emitter.setChannel(robot_num); reciever.setChannel(robot_num).
\* self.reciever is the device "receiver", the one handle_receiver reads as
\* self.receiver, so the channel is set on the device that is drained.
SetChannels(n) ==
    [set |-> TRUE, emitter |-> RobotNum(n).val, receiver |-> RobotNum(n).val]

FleetInit ==
    /\ fleetNames \in {f \in [Robots -> RobotNames] :
                          \A a, b \in Robots : a # b => f[a] # f[b]}
    /\ fleetChannel = [r \in Robots |-> Unset]

FleetIdle ==
    /\ fleetNames = [r \in Robots |-> RobotName(r)]
    /\ fleetChannel = [r \in Robots |-> Unset]

ConstructRobot(r) ==
    /\ ~fleetChannel[r].set
    /\ RobotNum(fleetNames[r]).ok
    /\ fleetChannel' = [fleetChannel EXCEPT ![r] = SetChannels(fleetNames[r])]
    /\ UNCHANGED fleetNames

Construct == \E r \in Robots : ConstructRobot(r)

(***************************************************************************)
(* CartPoleSupervisor.                                                     *)
(***************************************************************************)
None == [isNone |-> TRUE, fields |-> <<>>]
Some(fields) == [isNone |-> FALSE, fields |-> fields]

Abs(x) == IF x < 0 THEN -x ELSE x

(***************************************************************************)
(* Natural numbers of any size, for the arithmetic of doubles: a sequence  *)
(* of limbs, lowest first, each in 0 .. LimbBase - 1, with no zero limb on *)
(* top; <<>> is 0.                                                         *)
(***************************************************************************)
LimbBits == 15
LimbBase == 32 * 1024

Max(a, b) == IF a < b THEN b ELSE a
Min(a, b) == IF a < b THEN a ELSE b

\* limb i of a, 0 outside a
Limb(a, i) == IF 1 <= i /\ i <= Len(a) THEN a[i] ELSE 0

\* zero limbs on top removed
Trim(a) ==
    (CHOOSE only \in {
         IF \A i \in 1..Len(x) : x[i] = 0 THEN <<>>
         ELSE SubSeq(x, 1, Len(x) + 1 - (CHOOSE k \in 1..Len(x) :
                               /\ x[Len(x) + 1 - k] # 0
                               /\ \A j \in 1..(k - 1) : x[Len(x) + 1 - j] = 0))
       : x \in {a}} : TRUE)

\* the limbs of an int n >= 0
NatLimbs(n) == Trim(<<n % LimbBase, (n \div LimbBase) % LimbBase,
                      n \div (LimbBase * LimbBase)>>)

\* a < b
Less(a, b) ==
    (CHOOSE only \in {
         IF Len(p[1]) # Len(p[2]) THEN Len(p[1]) < Len(p[2])
         ELSE IF p[1] = p[2] THEN FALSE
         ELSE (CHOOSE only \in {
                   p[1][Len(p[1]) + 1 - k] < p[2][Len(p[1]) + 1 - k]
                 : k \in {CHOOSE k \in 1..Len(p[1]) :
                              /\ p[1][Len(p[1]) + 1 - k] # p[2][Len(p[1]) + 1 - k]
                              /\ \A j \in 1..(k - 1) :
                                    p[1][Len(p[1]) + 1 - j] = p[2][Len(p[1]) + 1 - j]}} : TRUE)
       : p \in {<<a, b>>}} : TRUE)

\* The carry into position i of the column sums u (a borrow is -1). A
\* column passes a carry on when it holds the value pv (LimbBase - 1 in a
\* sum, 0 in a difference); the carry comes from the nearest column below
\* i that does not.
Carry(u, i, pv) ==
    IF \A k \in 1..(i - 1) : u[i - k] = pv THEN 0
    ELSE u[i - (CHOOSE k \in 1..(i - 1) :
                    u[i - k] # pv /\ \A j \in 1..(k - 1) : u[i - j] = pv)]
           \div LimbBase

\* the column sums u with the carries taken over: the limbs and the carry
\* out of the top
Carried(u, pv) ==
    (CHOOSE only \in {
         [limbs |-> [i \in 1..Len(v) |-> (v[i] + Carry(v, i, pv)) % LimbBase],
          carry |-> Carry(v, Len(v) + 1, pv)]
       : v \in {u}} : TRUE)

\* a + b
Add(a, b) ==
    (CHOOSE only \in {
         Trim(Carried([i \in 1..(Max(Len(p[1]), Len(p[2])) + 1) |->
                          Limb(p[1], i) + Limb(p[2], i)],
                      LimbBase - 1).limbs)
       : p \in {<<a, b>>}} : TRUE)

\* a - b: the limbs of the difference, and carry -1 when a < b
Sub(a, b) ==
    (CHOOSE only \in {
         Carried([i \in 1..Max(Len(p[1]), Len(p[2])) |-> Limb(p[1], i) - Limb(p[2], i)],
                 0)
       : p \in {<<a, b>>}} : TRUE)

\* a * m for an int m, 0 <= m < LimbBase
MulSmall(a, m) ==
    (CHOOSE only \in {
         Trim(Carried([i \in 1..(Len(p[1]) + 2) |->
                          ((Limb(p[1], i) * p[2]) % LimbBase)
                          + ((Limb(p[1], i - 1) * p[2]) \div LimbBase)],
                      LimbBase - 1).limbs)
       : p \in {<<a, m>>}} : TRUE)

\* a * LimbBase^k
ShiftLimbs(a, k) == IF a = <<>> THEN <<>> ELSE [i \in 1..k |-> 0] \o a

\* a * 2^k
ShiftL(a, k) == ShiftLimbs(MulSmall(a, 2^(k % LimbBits)), k \div LimbBits)

\* a \div 2^k
ShiftR(a, k) ==
    (CHOOSE only \in {
         Trim([i \in 1..(Len(p[1]) - p[2]) |->
                  (p[1][i + p[2]] \div (2^p[3]))
                  + (Limb(p[1], i + p[2] + 1) % (2^p[3])) * (2^(LimbBits - p[3]))])
       : p \in {<<a, k \div LimbBits, k % LimbBits>>}} : TRUE)

\* binary digit j of a, and whether all the digits below j are zero
Bit(a, j) == (Limb(a, (j \div LimbBits) + 1) \div (2^(j % LimbBits))) % 2
LowZero(a, j) ==
    /\ \A i \in 1..(j \div LimbBits) : Limb(a, i) = 0
    /\ Limb(a, (j \div LimbBits) + 1) % (2^(j % LimbBits)) = 0

\* the number of binary digits of a
BitLen(a) ==
    IF a = <<>> THEN 0
    ELSE LimbBits * (Len(a) - 1)
         + (CHOOSE b \in 1..LimbBits : 2^(b - 1) <= Last(a) /\ Last(a) < 2^b)

\* the number of zero binary digits at the low end of a > 0
TrailingZeros(a) == CHOOSE j \in 0..(LimbBits * Len(a)) : Bit(a, j) = 1 /\ LowZero(a, j)

\* a[lo..hi] * b, a and b not 0
RECURSIVE MulRange(_, _, _, _)
MulRange(a, b, lo, hi) ==
    IF lo = hi THEN MulSmall(b, a[lo])
    ELSE (CHOOSE only \in {
              Add(MulRange(a, b, lo, mid),
                  ShiftLimbs(MulRange(a, b, mid + 1, hi), mid + 1 - lo))
            : mid \in {(lo + hi) \div 2}} : TRUE)

\* a * b
Mul(a, b) ==
    (CHOOSE only \in {
         IF p[1] = <<>> \/ p[2] = <<>> THEN <<>>
         ELSE MulRange(p[1], p[2], 1, Len(p[1]))
       : p \in {<<a, b>>}} : TRUE)

\* 5^p and 10^p
RECURSIVE Pow5(_)
Pow5(p) ==
    IF p <= 6 THEN <<5^p>>
    ELSE (CHOOSE only \in {
              (CHOOSE only \in {
                   IF p % 2 = 0 THEN sq ELSE MulSmall(sq, 5)
                 : sq \in {Mul(h, h)}} : TRUE)
            : h \in {Pow5(p \div 2)}} : TRUE)
Pow10(p) == ShiftL(Pow5(p), p)

\* the number written by the decimal digits ds[lo..hi]
RECURSIVE DigitsValue(_, _, _)
DigitsValue(ds, lo, hi) ==
    IF hi - lo < IntDigits THEN NatLimbs(NatOf(SubSeq(ds, lo, hi)))
    ELSE (CHOOSE only \in {
              Add(Mul(DigitsValue(ds, lo, mid), Pow10(hi - mid)),
                  DigitsValue(ds, mid + 1, hi))
            : mid \in {(lo + hi) \div 2}} : TRUE)
FromDigits(ds) == (CHOOSE only \in {DigitsValue(d, 1, Len(d)) : d \in {ds}} : TRUE)

\* One digit of a long division: r \div d and the remainder, for r < d *
\* LimbBase and a divisor d whose top limb is at least LimbBase / 2. The
\* estimate from the top limbs is the digit or up to two above it.
TryDigit(r, d, g) ==
    (CHOOSE only \in {
         [ok |-> x.carry = 0, q |-> g, rem |-> Trim(x.limbs)]
       : x \in {Sub(r, MulSmall(d, g))}} : TRUE)
DivDigit(r, d) ==
    (CHOOSE only \in {
         (CHOOSE only \in {
              IF first.ok THEN first
              ELSE (CHOOSE only \in {
                        IF second.ok THEN second ELSE TryDigit(r, d, g - 2)
                      : second \in {TryDigit(r, d, g - 1)}} : TRUE)
            : first \in {TryDigit(r, d, g)}} : TRUE)
       : g \in {Min(LimbBase - 1,
                    (Limb(r, Len(d) + 1) * LimbBase + Limb(r, Len(d))) \div Last(d))}} : TRUE)

\* the long division of a by d, from limb j of a down, r being the
\* remainder of the limbs above j
RECURSIVE DivStep(_, _, _, _)
DivStep(a, d, j, r) ==
    IF j = 0 THEN [quot |-> <<>>, rem |-> r]
    ELSE (CHOOSE only \in {
              (CHOOSE only \in {
                   [quot |-> Append(rest.quot, x.q), rem |-> rest.rem]
                 : rest \in {DivStep(a, d, j - 1, x.rem)}} : TRUE)
            : x \in {DivDigit(Trim(<<a[j]>> \o r), d)}} : TRUE)

\* a \div d for d > 0, with the remainder and the divisor both multiplied by
\* the power of two that brings the top limb of d to LimbBase / 2 or more
DivMod(a, d) ==
    (CHOOSE only \in {
         (CHOOSE only \in {
              IF Len(p[1]) < Len(p[2])
              THEN [quot |-> <<>>, rem |-> p[1], div |-> p[2]]
              ELSE (CHOOSE only \in {
                        [quot |-> Trim(r.quot), rem |-> r.rem,
                         div |-> p[2]]
                      : r \in {DivStep(p[1], p[2], Len(p[1]) - Len(p[2]) + 1,
                                       SubSeq(p[1], Len(p[1]) - Len(p[2]) + 2, Len(p[1])))}} : TRUE)
            : p \in {<<ShiftL(ad[1], LimbBits - BitLen(<<Last(ad[2])>>)),
                       ShiftL(ad[2], LimbBits - BitLen(<<Last(ad[2])>>))>>}} : TRUE)
       : ad \in {<<a, d>>}} : TRUE)

(***************************************************************************)
(* Floats. A float is an IEEE 754 double: a number (-1)^neg * mant * 2^exp *)
(* with mant odd (0.0 and -0.0 have mant 0 and exp 0), or "inf" with a     *)
(* sign, or "nan". mant is a natural number in limbs.                      *)
(***************************************************************************)
Float(k, s, m, e) == [kind |-> k, neg |-> s, mant |-> m, exp |-> e]

\* a double has 53 binary digits, the smallest one is 2^-1074 and all are
\* below 2^1024
DoubleBits == 53
MinExp == -1074
MaxBits == 1024

\* a \div d, and where the remainder stands against half of d: -1 below,
\* 0 at the half, 1 above
Quotient(a, d) ==
    (CHOOSE only \in {
         [quot |-> r.quot,
          half |-> (CHOOSE only \in {
                        IF t = r.div THEN 0 ELSE IF Less(t, r.div) THEN -1 ELSE 1
                      : t \in {MulSmall(r.rem, 2)}} : TRUE)]
       : r \in {DivMod(a, d)}} : TRUE)

\* n / (m * 2^k), for any int k
QuotientAt(n, m, k) ==
    IF k >= 0 THEN Quotient(n, ShiftL(m, k)) ELSE Quotient(ShiftL(n, -k), m)

\* the double of r.quot units of 2^x, moved to the nearest unit and at a
\* tie to the even one: inf from 2^MaxBits on
RoundHalfEven(neg, r, x) ==
    (CHOOSE only \in {
         IF q = <<>> THEN Float("num", neg, <<>>, 0)
         ELSE IF BitLen(q) + x > MaxBits THEN Float("inf", neg, <<>>, 0)
         ELSE (CHOOSE only \in {
                   Float("num", neg, ShiftR(q, z), x + z)
                 : z \in {TrailingZeros(q)}} : TRUE)
       : q \in {IF r.half > 0 \/ (r.half = 0 /\ Bit(r.quot, 0) = 1)
                THEN Add(r.quot, <<1>>) ELSE r.quot}} : TRUE)

\* The double nearest to (-1)^neg * (n / m) * 2^e, for m > 0: the quotient
\* is taken in units of 2^(k + e), the unit that leaves it 53 binary digits
\* or, for a subnormal, the unit 2^MinExp.
NearestDouble(neg, n, m, e) ==
    (CHOOSE only \in {
         IF p[1] = <<>> THEN Float("num", neg, <<>>, 0)
         ELSE (CHOOSE only \in {
                   (CHOOSE only \in {
                        IF BitLen(r.quot) > DoubleBits
                        THEN RoundHalfEven(neg, QuotientAt(p[1], p[2], k + 1), k + 1 + e)
                        ELSE RoundHalfEven(neg, r, k + e)
                      : r \in {QuotientAt(p[1], p[2], k)}} : TRUE)
                 : k \in {Max(BitLen(p[1]) - BitLen(p[2]) - DoubleBits, MinExp - e)}} : TRUE)
       : p \in {<<n, m>>}} : TRUE)

\* the double of m thousandths
FloatOf(m) == NearestDouble(m < 0, NatLimbs(Abs(m)), NatLimbs(1000), 0)

\* |f| < n / d for a number f and ints n >= 0, d > 0
Below(f, n, d) ==
    IF f.exp >= 0 THEN Less(ShiftL(Mul(f.mant, NatLimbs(d)), f.exp), NatLimbs(n))
    ELSE Less(Mul(f.mant, NatLimbs(d)), ShiftL(NatLimbs(n), -f.exp))

\* abs(f) > n / d as the code evaluates it for a number f and a literal
\* n / d (ints n >= 0, d > 0): the literal is the double nearest to n / d,
\* and the two doubles are compared
Above(f, n, d) ==
    (CHOOSE only \in {
         IF f.exp >= lim.exp
         THEN Less(lim.mant, ShiftL(f.mant, f.exp - lim.exp))
         ELSE Less(ShiftL(lim.mant, lim.exp - f.exp), f.mant)
       : lim \in {NearestDouble(FALSE, NatLimbs(n), NatLimbs(d), 0)}} : TRUE)

\* A decimal of more than MaxSigDigits digits is read as its first
\* MaxSigDigits digits, with a digit 1 after them when a later digit is not
\* 0: a double and the middle of two doubles have at most 767 digits, so the
\* nearest double is the same. Beyond 10^MaxDecimalExp every decimal is read
\* as inf, below 10^MinDecimalExp as zero.
MaxSigDigits == 800
MaxDecimalExp == 309
MinDecimalExp == -324

\* the float 0.ds * 10^p with the sign neg, ds starting with a non-zero digit
Decimal(neg, ds, p) ==
    IF p > MaxDecimalExp THEN Float("inf", neg, <<>>, 0)
    ELSE IF p <= MinDecimalExp THEN Float("num", neg, <<>>, 0)
    ELSE (CHOOSE only \in {
              IF p >= Len(d)
              THEN NearestDouble(neg, Mul(FromDigits(d), Pow5(p - Len(d))),
                                 <<1>>, p - Len(d))
              ELSE NearestDouble(neg, FromDigits(d), Pow5(Len(d) - p),
                                 p - Len(d))
            : d \in {IF Len(ds) <= MaxSigDigits THEN ds
                     ELSE IF \A i \in (MaxSigDigits + 1)..Len(ds) : ds[i] = 0
                     THEN SubSeq(ds, 1, MaxSigDigits)
                     ELSE Append(SubSeq(ds, 1, MaxSigDigits), 1)}} : TRUE)

\* str.lower() on the letters of "infinity" and "nan"
LowerOf(c) == CASE c = "I" -> "i" [] c = "N" -> "n" [] c = "F" -> "f"
                [] c = "A" -> "a" [] c = "T" -> "t" [] c = "Y" -> "y"
                [] OTHER -> c

\* what float(tok) raises
NotAFloat == [ok |-> FALSE, kind |-> "num", neg |-> FALSE, mant |-> <<>>, exp |-> 0]
\* what float(tok) returns
Parsed(f) == (CHOOSE only \in {
                  [ok |-> TRUE, kind |-> x.kind, neg |-> x.neg,
                   mant |-> x.mant, exp |-> x.exp]
                : x \in {f}} : TRUE)

\* float() of the parts of a numeral: the digits before and after the point
\* and of the exponent must be digit groups, with a digit before the exponent
FloatOfParts(neg, p) ==
    IF ~(/\ p.dots <= 1
         /\ p.whole = <<>> \/ DigitGroup(p.whole)
         /\ p.frac = <<>> \/ DigitGroup(p.frac)
         /\ p.whole # <<>> \/ p.frac # <<>>
         /\ p.hasExp => DigitGroup(p.expBody))
    THEN NotAFloat
    ELSE (CHOOSE only \in {
              (CHOOSE only \in {
                   IF ds = <<>> THEN Parsed(Float("num", neg, <<>>, 0))
                   ELSE Parsed(Decimal(neg, ds,
                                       Len(ds) - Len(q.frac) + q.e))
                 : ds \in {DropZeros(q.whole \o q.frac)}} : TRUE)
            : q \in {[whole |-> IF p.whole = <<>> THEN <<>> ELSE GroupDigits(p.whole),
                      frac |-> IF p.frac = <<>> THEN <<>> ELSE GroupDigits(p.frac),
                      e |-> IF ~p.hasExp THEN 0
                            ELSE IF p.expNeg
                            THEN -(CHOOSE only \in {
                                       CappedNat(y)
                                     : y \in {DropZeros(GroupDigits(p.expBody))}} : TRUE)
                            ELSE (CHOOSE only \in {
                                      CappedNat(y)
                                    : y \in {DropZeros(GroupDigits(p.expBody))}} : TRUE)]}} : TRUE)

\* float() of a numeral cut at its exponent: the mantissa is cut at its point
FloatOfMantissa(neg, m) ==
    LET dots == {i \in 1..Len(m.mantissa) : m.mantissa[i] = "."}
        expSigned == Len(m.exponent) > 0 /\ m.exponent[1] \in {"-", "+"}
    IN  (CHOOSE only \in {
             (CHOOSE only \in {
                  FloatOfParts(neg, p)
                : p \in {[whole |-> SubSeq(m.mantissa, 1, d - 1),
                          frac |-> SubSeq(m.mantissa, d + 1, Len(m.mantissa)),
                          dots |-> Cardinality(dots),
                          hasExp |-> m.hasExp,
                          expNeg |-> expSigned /\ m.exponent[1] = "-",
                          expBody |-> IF expSigned THEN Tail(m.exponent) ELSE m.exponent]}} : TRUE)
           : d \in {IF dots = {} THEN Len(m.mantissa) + 1 ELSE CHOOSE i \in dots : TRUE}} : TRUE)

\* float() of a text without sign: "inf", "infinity" or "nan" in any case,
\* or a numeral, which is cut at its first "e" or "E"
FloatOfBody(neg, body) ==
    LET word == [i \in 1..Len(body) |-> LowerOf(body[i])]
        es == {i \in 1..Len(body) : body[i] \in {"e", "E"}}
    IN  IF word \in {<<"i", "n", "f">>, <<"i", "n", "f", "i", "n", "i", "t", "y">>}
        THEN Parsed(Float("inf", neg, <<>>, 0))
        ELSE IF word = <<"n", "a", "n">> THEN Parsed(Float("nan", FALSE, <<>>, 0))
        ELSE (CHOOSE only \in {
                  (CHOOSE only \in {
                       FloatOfMantissa(neg, m)
                     : m \in {[mantissa |-> SubSeq(body, 1, k - 1),
                               exponent |-> SubSeq(body, k + 1, Len(body)),
                               hasExp |-> k <= Len(body)]}} : TRUE)
                : k \in {IF es = {} THEN Len(body) + 1
                         ELSE CHOOSE i \in es : \A j \in es : i <= j}} : TRUE)

\* float() of a text without white space around it: an optional sign first
FloatOfStripped(t) ==
    (CHOOSE only \in {
         FloatOfBody(Len(t) > 0 /\ t[1] = "-", body)
       : body \in {IF Len(t) > 0 /\ t[1] \in {"-", "+"} THEN Tail(t) ELSE t}} : TRUE)

\* float() of a text: white space stripped, an optional sign, then "inf",
\* "infinity" or "nan" in any case, or digits with an optional point and an
\* optional exponent (digit groups, at least one digit before the
\* exponent); anything else is a ValueError
FloatOfText(tok) == (CHOOSE only \in {
                         (CHOOSE only \in {
                              FloatOfStripped(y)
                            : y \in {Strip(s)}} : TRUE)
                       : s \in {tok}} : TRUE)

\* the angles a frame can hold, in thousandths
MinAngleMilli == 260
MaxAngleMilli == 270
Signed(lo, hi) == {0} \cup (lo..hi) \cup {-a : a \in lo..hi}
AngleMilli == Signed(MinAngleMilli, MaxAngleMilli)
\* frames in the other spellings a float comes in: blanks around it, no
\* digit before the dot, more than three decimals, more decimals than a
\* double tells apart, an exponent, nan, inf
AngleForms == {<<" ", "0", ".", "2", "7", "\n">>,
               <<".", "2", "6", "5">>,
               <<"0", ".", "2", "6", "4", "9", "9", "9", "9">>,
               <<"0", ".", "2", "6", "5", "0", "0", "0", "1">>,
               <<"0", ".", "2", "6", "4", "9", "9", "9", "9", "9", "9", "9", "9", "9",
                 "9", "9", "9", "9", "9", "9", "9", "9">>,
               <<"1", "e", "-", "0", "5">>,
               <<"n", "a", "n">>,
               <<"-", "i", "n", "f">>}
\* the texts of the frames the supervisor is given: str() of an angle, the
\* other spellings, and a malformed one
AngleTexts == {FormatMilli(a) : a \in AngleMilli} \cup AngleForms \cup {<<"x">>}

\* float(tok); for the texts of the supervisor's frames it is computed once
AngleFloats == [t \in AngleTexts |-> FloatOfText(t)]
ParseFloat(tok) == IF tok \in AngleTexts THEN AngleFloats[tok] ELSE FloatOfText(tok)
\* what float() gives for the supervisor's frames
FrameFloats == {AngleFloats[t] : t \in AngleTexts}

\* The position of the cart is a double x = a / 1000. With 2^e <= x < 2^(e+1)
\* the binary digits after the 53rd are the fraction of x * 2^(52 - e), that
\* is ((a * 2^(52 - e)) mod 1000) / 1000: below one half the nearest double
\* lies below x, above one half it lies above x, and at 0 the double is x.

\* the exponent e of a / 1000, a > 0
BinaryExp(a) ==
    IF a >= 1000 THEN CHOOSE i \in 0..20 : 2^i <= a \div 1000 /\ a \div 1000 < 2^(i + 1)
    ELSE -(CHOOSE j \in 1..10 : a * 2^j >= 1000 /\ a * 2^(j - 1) < 1000)

\* 2^k mod 1000
RECURSIVE TwoPowerMod(_)
TwoPowerMod(k) == IF k = 0 THEN 1 ELSE (2 * TwoPowerMod(k - 1)) % 1000

\* round(.., 2) at a tie a = d.dd5 thousandths: toward zero when the double
\* lies below the decimal, to the even hundredth when it is the decimal
TieDown(a) ==
    (CHOOSE only \in {
         (0 < rest /\ rest < 500) \/ (rest = 0 /\ (a \div 10) % 2 = 0)
       : rest \in {((a % 1000) * TwoPowerMod(DoubleBits - 1 - BinaryExp(a))) % 1000}} : TRUE)

\* round(x, 2) of the double x = m / 1000, in centi units
Round2(m) ==
    LET a == Abs(m)
        c == IF a % 10 < 5 THEN a \div 10
             ELSE IF a % 10 > 5 THEN a \div 10 + 1
             ELSE IF TieDown(a) THEN a \div 10
             ELSE a \div 10 + 1
    IN  IF m < 0 THEN -c ELSE c

\* a rational number num / den, den > 0
Rat(n, d) == [num |-> n, den |-> d]
Zero == Rat(0, 1)

\* utilities.normalizeToRange: the affine map of [minVal, maxVal] onto
\* [newMin, newMax], clamped to [newMin, newMax] when clip is set.
\* value, minVal, maxVal are in milli units; the result is exact.
NormalizeToRange(value, minVal, maxVal, newMin, newMax, clip) ==
    LET den == maxVal - minVal
        raw == newMin * den + (value - minVal) * (newMax - newMin)
        lo == newMin * den
        hi == newMax * den
    IN  IF clip THEN Rat(IF raw < lo THEN lo ELSE IF raw > hi THEN hi ELSE raw, den)
        ELSE Rat(raw, den)

ObservationSpace == 4         \* self.observationSpace = 4
CartPosRange == 400           \* cart position range -0.4 .. 0.4
CartVelRange == 200           \* cart velocity range -0.2 .. 0.2
PoleAngleRange == 230         \* pole angle range -0.23 .. 0.23
TipVelRange == 1500           \* endpoint velocity range -1.5 .. 1.5
ScoreLimit == 195             \* episodeScore > 195.0
AngleLimitNano == 261799388   \* abs(poleAngle) > 0.261799388
CartLimitNano == 390000000    \* abs(cartPosition) > 0.39
NanoPerCenti == 10 * 1000 * 1000
NanoPerMilli == 1000 * 1000

\* |f| in hundredths for a number f = mant * 2^exp, moved to the nearest
\* hundredth and at a tie to the even one
RoundCenti(f) ==
    (CHOOSE only \in {
         IF f.exp >= 0 THEN ShiftL(c, f.exp)
         ELSE (CHOOSE only \in {
                   IF /\ Bit(c, -f.exp - 1) = 1
                      /\ ~LowZero(c, -f.exp - 1) \/ Bit(q, 0) = 1
                   THEN Add(q, <<1>>) ELSE q
                 : q \in {ShiftR(c, -f.exp)}} : TRUE)
       : c \in {MulSmall(f.mant, 100)}} : TRUE)

\* round(f, 2): the sign and the hundredths of a number; inf and nan stay
\* what they are
Rounded(f) ==
    (CHOOSE only \in {
         [kind |-> x.kind, neg |-> x.neg,
          centi |-> IF x.kind = "num" THEN RoundCenti(x) ELSE <<>>]
       : x \in {f}} : TRUE)

\* round(f, 2); for the floats of the supervisor's frames it is computed once
RoundedFrames == [f \in FrameFloats |-> Rounded(f)]
Round(f) == IF f \in FrameFloats THEN RoundedFrames[f] ELSE Rounded(f)

\* abs(r) > limit for a rounded r: nan compares FALSE with everything
AbsOver(r, limitNano) ==
    CASE r.kind = "nan" -> FALSE
      [] r.kind = "inf" -> TRUE
      [] OTHER -> Less(NatLimbs(limitNano \div NanoPerCenti), r.centi)

\* not a number, as an observation field
NaN == Rat(0, 0)

\* The image of a double under the affine map of [-r, r] thousandths onto
\* [-1, 1], for a double inside the range: the number 1000 * value / r, kept
\* as the double and the range.
Affine(f, r) == [value |-> Float(f.kind, f.neg, f.mant, f.exp), range |-> r]

\* normalizeToRange(f, -0.23, 0.23, -1.0, 1.0, clip=True) of a float f: inf
\* is clipped like every number beyond the range, nan passes through the
\* arithmetic and the clip
NormalizePoleAngle(f) ==
    (CHOOSE only \in {
         CASE x.kind = "nan" -> NaN
           [] x.kind = "num" /\ x.mant = <<>> ->
                 NormalizeToRange(0, -PoleAngleRange, PoleAngleRange, -1, 1, TRUE)
           [] x.kind = "num" /\ x.mant # <<>> /\ Below(x, PoleAngleRange, 1000) ->
                 Affine(x, PoleAngleRange)
           [] OTHER ->
                 NormalizeToRange(IF x.neg THEN -PoleAngleRange ELSE PoleAngleRange,
                                  -PoleAngleRange, PoleAngleRange, -1, 1, TRUE)
       : x \in {f}} : TRUE)

\* the normalized pole angle; for the floats of the supervisor's frames it
\* is computed once
NormalizedFrames == [f \in FrameFloats |-> NormalizePoleAngle(f)]
PoleAngle(f) == IF f \in FrameFloats THEN NormalizedFrames[f] ELSE NormalizePoleAngle(f)

\* get_observations without the "is not None" test
GetObservationsNoGuard(x, v, recv, tip) ==
    IF recv.isNone THEN [raised |-> "TypeError", obs |-> <<>>]
    ELSE (CHOOSE only \in {
              IF ~angle.ok THEN [raised |-> "ValueError", obs |-> <<>>]
              ELSE [raised |-> "none",
                    obs |-> <<NormalizeToRange(x, -400, 400, -1, 1, FALSE),
                              NormalizeToRange(v, -200, 200, -1, 1, TRUE),
                              PoleAngle(angle),
                              NormalizeToRange(tip, -1500, 1500, -1, 1, TRUE)>>]
            : angle \in {ParseFloat(recv.fields[1])}} : TRUE)

\* a cache that keeps the last frame when the receive returns None
KeepLastKnown(old, recv) == IF recv.isNone THEN old ELSE recv

\* self.messageReceived = self.handle_receiver()
StoreMessage(old, recv) == recv

\* get_observations: the exception raised and the observation returned
GetObservationsOf(x, v, recv, tip) ==
    LET cartPosition == NormalizeToRange(x, -CartPosRange, CartPosRange, -1, 1, FALSE)
        cartVelocity == NormalizeToRange(v, -CartVelRange, CartVelRange, -1, 1, TRUE)
        endpointVelocity == NormalizeToRange(tip, -TipVelRange, TipVelRange, -1, 1, TRUE)
    IN  IF recv.isNone
        THEN [raised |-> "none",
              obs |-> <<cartPosition, cartVelocity, Zero, endpointVelocity>>]
        ELSE (CHOOSE only \in {
                  IF ~angle.ok THEN [raised |-> "ValueError", obs |-> <<>>]
                  ELSE [raised |-> "none",
                        obs |-> <<cartPosition, cartVelocity, PoleAngle(angle),
                                  endpointVelocity>>]
                : angle \in {ParseFloat(recv.fields[1])}} : TRUE)

\* get_default_observation: [0.0 for _ in range(self.observationSpace)]
GetDefaultObservation == [i \in 1..ObservationSpace |-> Zero]

\* get_reward: always 1
GetReward == 1

\* what is_done returns, or the exception it raises
Returned(b) == [raised |-> "none", done |-> b]
Raised(e) == [raised |-> e, done |-> FALSE]

\* is_done without the test of the episode score
IsDoneNoScore(score, msg, x) ==
    (CHOOSE only \in {
         IF ~angle.ok THEN Raised("ValueError")
         ELSE Returned(\/ AbsOver(Round(angle), 261799388)
                       \/ Abs(Round2(x)) * (10 * 1000 * 1000) > 390000000)
       : angle \in {IF ~msg.isNone THEN ParseFloat(msg.fields[1]) ELSE Parsed(FloatOf(0))}} : TRUE)

\* is_done comparing the angle and the position without round(.., 2)
IsDoneNoRound(score, msg, x) ==
    IF score > 195 THEN Returned(TRUE)
    ELSE (CHOOSE only \in {
              IF ~angle.ok THEN Raised("ValueError")
              ELSE Returned(\/ angle.kind = "inf"
                            \/ /\ angle.kind = "num"
                               /\ Above(angle, 261799388, 1000 * 1000 * 1000)
                            \/ Abs(x) > 390)
            : angle \in {IF ~msg.isNone THEN ParseFloat(msg.fields[1]) ELSE Parsed(FloatOf(0))}} : TRUE)

\* is_done: what it returns, or the ValueError of float()
IsDoneOf(score, msg, x) ==
    IF score > ScoreLimit THEN Returned(TRUE)
    ELSE (CHOOSE only \in {
              IF ~angle.ok THEN Raised("ValueError")
              ELSE LET poleAngle == Round(angle)
                   IN  IF AbsOver(poleAngle, AngleLimitNano) THEN Returned(TRUE)
                       ELSE LET cartPosition == Round2(x)
                            IN  IF Abs(cartPosition) * NanoPerCenti > CartLimitNano
                                THEN Returned(TRUE)
                                ELSE Returned(FALSE)
            : angle \in {IF ~msg.isNone THEN ParseFloat(msg.fields[1]) ELSE Parsed(FloatOf(0))}} : TRUE)

\* inputs of the supervisor
MinCartMilli == 388
MaxCartMilli == 396
MinScore == 195
MaxScore == 196
OffTrackMilli == 405
\* the track ends at +-0.4 but nothing keeps the reading inside it
CartMilli == Signed(MinCartMilli, MaxCartMilli) \cup {OffTrackMilli, -OffTrackMilli}
CartVelMilli == {0, 250}
TipVelMilli == {0, -1600}
ScoreValues == {0} \cup (MinScore..MaxScore)
\* what handle_receiver returns: None, the robot's frame, or a malformed frame
SupInbound == {None} \cup {Some(Decode(t)) : t \in AngleTexts}

SupInit ==
    /\ messageReceived = None
    /\ episodeScore \in ScoreValues
    /\ cartX \in CartMilli
    /\ cartV \in CartVelMilli
    /\ tipV \in TipVelMilli
    /\ lastObs = <<>>
    /\ lastDone = FALSE
    /\ supCall = "init"
    /\ supErr = "none"
    /\ supRecv = None
    /\ hadFrame = FALSE

SupIdle ==
    /\ messageReceived = None
    /\ episodeScore = 0
    /\ cartX = 0
    /\ cartV = 0
    /\ tipV = 0
    /\ lastObs = <<>>
    /\ lastDone = FALSE
    /\ supCall = "init"
    /\ supErr = "none"
    /\ supRecv = None
    /\ hadFrame = FALSE

\* supervisor.step(timestep): the simulation advances, the readings change
SupStep ==
    /\ supErr = "none"
    /\ supCall # "step"
    /\ cartX' \in CartMilli
    /\ cartV' \in CartVelMilli
    /\ tipV' \in TipVelMilli
    /\ lastObs' = <<>>
    /\ lastDone' = FALSE
    /\ supCall' = "step"
    /\ UNCHANGED <<messageReceived, episodeScore, supErr, supRecv, hadFrame>>

\* get_observations()
GetObservations ==
    /\ supErr = "none"
    /\ supCall \in {"init", "step", "get_default_observation"}
    /\ \E recv \in SupInbound :
          \E res \in {GetObservationsOf(cartX, cartV, recv, tipV)} :
              /\ messageReceived' = StoreMessage(messageReceived, recv)
              /\ supRecv' = recv
              /\ supErr' = res.raised
              /\ lastObs' = res.obs
    /\ hadFrame' = (hadFrame \/ ~supRecv.isNone)
    /\ supCall' = "get_observations"
    /\ UNCHANGED <<episodeScore, cartX, cartV, tipV, lastDone>>

\* is_done()
IsDone ==
    /\ supErr = "none"
    /\ supCall # "is_done"
    /\ \E res \in {IsDoneOf(episodeScore, messageReceived, cartX)} :
          /\ lastDone' = IF res.raised = "none" THEN res.done ELSE lastDone
          /\ supErr' = res.raised
    /\ supCall' = "is_done"
    /\ UNCHANGED <<messageReceived, episodeScore, cartX, cartV, tipV, lastObs,
                   supRecv, hadFrame>>

\* get_default_observation(), as reset() returns it
DefaultObservation ==
    /\ supErr = "none"
    /\ supCall \in {"init", "is_done"}
    /\ lastObs' = GetDefaultObservation
    /\ supCall' = "get_default_observation"
    /\ UNCHANGED <<messageReceived, episodeScore, cartX, cartV, tipV, lastDone,
                   supErr, supRecv, hadFrame>>

(***************************************************************************)
(* CartPoleSupervisor.solved over the score history.                       *)
(***************************************************************************)
SolvedMinEpisodes == 100      \* len(self.episodeScoreList) > 100
SolvedWindow == 100           \* self.episodeScoreList[-100:]
SolvedMean == 195             \* np.mean(...) > 195.0

RECURSIVE Sum(_)
Sum(s) == IF Len(s) = 0 THEN 0 ELSE Head(s) + Sum(Tail(s))

\* xs[-n:]
LastN(xs, n) == IF Len(xs) <= n THEN xs ELSE SubSeq(xs, Len(xs) - n + 1, Len(xs))

\* np.mean(xs) > t for a non-empty list of ints xs and an int t
MeanGreater(xs, t) == Sum(xs) > t * Len(xs)

\* solved() with "len(...) >= 100"
SolvedAtLeast(list) ==
    Len(list) >= 100 /\ Sum(LastN(list, 100)) > 195 * Len(LastN(list, 100))

\* solved()
SolvedOf(list) ==
    IF Len(list) > SolvedMinEpisodes
    THEN IF MeanGreater(LastN(list, SolvedWindow), SolvedMean) THEN TRUE ELSE FALSE
    ELSE FALSE

Rep(x, n) == [i \in 1..n |-> x]
ScoreSamples == {0, 195, 196, 197}
\* histories: a run of old scores, a run of about a window, a short run
Histories ==
    {Rep(a, i) \o Rep(b, j) \o Rep(c, k) :
        a \in {0, 197}, b \in ScoreSamples, c \in {195, 197},
        i \in 0..MaxOld, j \in {0} \cup ((SolvedWindow - 2)..SolvedWindow),
        k \in 0..MaxNew}

SolvedInit ==
    /\ episodeScoreList \in Histories
    /\ solvedResult = "none"
    /\ appended = 0

SolvedIdle ==
    /\ episodeScoreList = <<>>
    /\ solvedResult = "none"
    /\ appended = 0

\* self.episodeScoreList.append(self.episodeScore), at the end of an episode
AppendScore ==
    /\ appended < MaxAppend
    /\ \E sc \in ScoreSamples : episodeScoreList' = Append(episodeScoreList, sc)
    /\ appended' = appended + 1
    /\ solvedResult' = "none"

\* solved()
Solved ==
    /\ solvedResult = "none"
    /\ solvedResult' = IF SolvedOf(episodeScoreList) THEN "true" ELSE "false"
    /\ UNCHANGED <<episodeScoreList, appended>>

(***************************************************************************)
(* The codec: handle_emitter's encoder followed by handle_receiver's       *)
(* decoder.                                                                *)
(***************************************************************************)
ScalarSamples == {IntScalar(0), IntScalar(-12), FloatScalar(263),
                  StrScalar(<<>>), StrScalar(<<"a", "b">>),
                  StrScalar(<<"a", ",", "b">>)}

CodecInit ==
    /\ codecIn \in SeqsUpTo(ScalarSamples, MaxFields)
    /\ codecFrame = <<>>
    /\ codecOut = <<>>
    /\ codecPc = "in"

CodecIdle ==
    /\ codecIn = <<>>
    /\ codecFrame = <<>>
    /\ codecOut = <<>>
    /\ codecPc = "in"

\* string_message = ",".join(map(str, data)); emitter.send(string_message)
CodecEncode ==
    /\ codecPc = "in"
    /\ codecFrame' = Encode(codecIn)
    /\ codecPc' = "encoded"
    /\ UNCHANGED <<codecIn, codecOut>>

\* message = receiver.getData().decode("utf-8").split(",")
CodecDecode ==
    /\ codecPc = "encoded"
    /\ codecOut' = Decode(codecFrame)
    /\ codecPc' = "decoded"
    /\ UNCHANGED <<codecIn, codecFrame>>

(***************************************************************************)
(* Specifications.                                                         *)
(***************************************************************************)
RobotIdle ==
    /\ controller = "multi"
    /\ name = RobotName(1)
    /\ robot_num = 1
    /\ emitterChannel = 1
    /\ receiverChannel = 1
    /\ wheels = SetupMotors
    /\ queue = <<>>
    /\ sensor = 0
    /\ stepResult = 0
    /\ err = "none"
    /\ sent = <<>>
    /\ ticks = 0
    /\ tickLog = <<>>
    /\ wheelsAtDrain = SetupMotors
    /\ queueAtDrain = <<>>
    /\ lastAction = -1
    /\ pc = "step"

(***************************************************************************)
(* The continuous CartPoleRobot controller. Its run loop and its           *)
(* handle_receiver / handle_emitter are those of the emitter-receiver      *)
(* base controller: per tick the inbound queue is drained, the last frame  *)
(* is the one applied, then one observation frame is sent.                 *)
(***************************************************************************)
\* f * k in the arithmetic of doubles, for a float f and an int k with
\* 0 < k < LimbBase: the double nearest to the product, inf when the product
\* is beyond the doubles; inf and nan stay what they are
TimesFloat(f, k) ==
    (CHOOSE only \in {
         IF x.kind = "num" THEN NearestDouble(x.neg, MulSmall(x.mant, k), <<1>>, x.exp)
         ELSE Float(x.kind, x.neg, <<>>, 0)
       : x \in {f}} : TRUE)

\* setup_motors: every wheel gets velocity 0.0
ContSetupMotors == [i \in 1..NumWheels |-> FloatOf(0)]

\* float(message[0]) of a malformed token taken as 0.0
ContUseMessageDataDefault(w, message) ==
    LET v == ParseFloat(message[1])
    IN  [wheels |-> [i \in 1..4 |-> IF v.ok THEN TimesFloat(v, 5)
                                    ELSE FloatOf(0)],
         raised |-> "none"]

\* motorSpeed = float(message[0]) * 5.0
MotorSpeedScale == 5

\* use_message_data: the wheels after the call and the exception it raised
ContUseMessageData(w, message) ==
    LET v == ParseFloat(message[1])
    IN  IF ~v.ok THEN [wheels |-> w, raised |-> "ValueError"]
        ELSE LET motorSpeed == TimesFloat(v, MotorSpeedScale)
             IN  [wheels |-> [i \in 1..NumWheels |-> motorSpeed],
                  raised |-> "none"]

\* create_message: [str(self.positionSensor.getValue())]
ContCreateMessage(s) == <<StrScalar(FormatMilli(s))>>

\* the base controller's loop runs until the simulator stops the process
ContLoopContinues(r) == r # -1

ContFrames == {<<"0", ".", "5">>, <<" ", "-", "2", "5", "e", "-", "2">>, <<"x">>}

\* the continuous robot after its constructor: no channel is set
ContInit ==
    /\ controller = "continuous"
    /\ name = <<"r", "o", "b", "o", "t">>
    /\ robot_num = 0
    /\ emitterChannel = 0
    /\ receiverChannel = 0
    /\ wheels = ContSetupMotors
    /\ queue = <<>>
    /\ sensor = 0
    /\ stepResult = 0
    /\ err = "none"
    /\ sent = <<>>
    /\ ticks = 0
    /\ tickLog = <<>>
    /\ wheelsAtDrain = ContSetupMotors
    /\ queueAtDrain = <<>>
    /\ lastAction = -1
    /\ pc = "step"

\* robot.step of the base controller's run loop
ContStep ==
    /\ controller = "continuous"
    /\ pc = "step"
    /\ ticks < MaxTicks
    /\ \E r \in StepResults, arrived \in SeqsUpTo(ContFrames, MaxQueue),
          s \in SensorValues :
          /\ stepResult' = r
          /\ queue' = queue \o arrived
          /\ sensor' = s
          /\ pc' = IF ContLoopContinues(r) THEN "recv" ELSE "exited"
    /\ ticks' = ticks + 1
    /\ sent' = <<>>
    /\ tickLog' = <<>>
    /\ wheelsAtDrain' = wheels
    /\ queueAtDrain' = queue'
    /\ UNCHANGED <<controller, name, robot_num, emitterChannel, receiverChannel,
                   wheels, err, lastAction>>

\* handle_receiver of the base controller: drain the queue, apply the last frame
ContRecv ==
    /\ controller = "continuous"
    /\ pc = "recv"
    /\ IF Len(queue) = 0
       THEN /\ pc' = "emit"
            /\ UNCHANGED <<wheels, queue, err, tickLog>>
       ELSE \E res \in {ContUseMessageData(wheels, Decode(Last(queue)))} :
                IF res.raised # "none"
                THEN /\ err' = res.raised
                     /\ pc' = "crashed"
                     /\ UNCHANGED <<wheels, queue, tickLog>>
                ELSE /\ wheels' = res.wheels
                     /\ tickLog' = Append(tickLog, "apply")
                     /\ queue' = <<>>
                     /\ pc' = "emit"
                     /\ UNCHANGED err
    /\ UNCHANGED <<controller, name, robot_num, emitterChannel, receiverChannel,
                   sensor, stepResult, sent, ticks, wheelsAtDrain, queueAtDrain,
                   lastAction>>

\* handle_emitter of the base controller: encode create_message(), send
ContEmit ==
    /\ controller = "continuous"
    /\ pc = "emit"
    /\ sent' = Append(sent, Encode(ContCreateMessage(sensor)))
    /\ tickLog' = Append(tickLog, "send")
    /\ pc' = "step"
    /\ UNCHANGED <<controller, name, robot_num, emitterChannel, receiverChannel,
                   wheels, queue, sensor, stepResult, err, ticks, wheelsAtDrain,
                   queueAtDrain, lastAction>>

(***************************************************************************)
(* The orchestrator's episode loop around the supervisor: per step the     *)
(* environment advances, the observation, the reward and done are          *)
(* computed, the reward is added to episodeScore, and the loop is left     *)
(* when done or after StepCap steps; the score is then appended to the     *)
(* history and the environment is reset.                                   *)
(***************************************************************************)
MaxEpisodes == 1
StepCap == 200
EpisodeCart == {0, MaxCartMilli}
EpisodeInbound == {None} \cup {Some(Decode(FormatMilli(a))) : a \in {0, MaxAngleMilli}}

EpisodeInit ==
    /\ epStep = 0
    /\ epPhase = "running"

\* one pass of the step loop
EpisodeStep ==
    /\ epPhase = "running"
    /\ Len(episodeScoreList) < MaxEpisodes
    /\ \E x \in EpisodeCart, recv \in EpisodeInbound :
          \E res \in {GetObservationsOf(x, cartV, recv, tipV)},
             msg \in {StoreMessage(messageReceived, recv)} :
          \E done \in {IsDoneOf(episodeScore, msg, x).done} :
              /\ cartX' = x
              /\ messageReceived' = msg
              /\ supRecv' = recv
              /\ lastObs' = res.obs
              /\ supErr' = res.raised
              /\ lastDone' = done
              /\ epPhase' = IF done THEN "done"
                            ELSE IF epStep + 1 >= StepCap THEN "cap"
                            ELSE "running"
    /\ hadFrame' = (hadFrame \/ ~supRecv.isNone)
    /\ episodeScore' = episodeScore + GetReward
    /\ epStep' = epStep + 1
    /\ supCall' = "is_done"
    /\ UNCHANGED <<cartV, tipV>>

\* the episode is over: its score joins the history and reset() is called
EpisodeEnd ==
    /\ epPhase \in {"done", "cap"}
    /\ episodeScoreList' = Append(episodeScoreList, episodeScore)
    /\ episodeScore' = 0
    /\ epStep' = 0
    /\ epPhase' = "running"
    /\ messageReceived' = None
    /\ lastObs' = GetDefaultObservation
    /\ lastDone' = FALSE
    /\ supCall' = "get_default_observation"
    /\ UNCHANGED <<cartX, cartV, tipV, supErr, supRecv, hadFrame, solvedResult, appended>>

\* the multi-robot robot controller process
Init == RobotInit /\ FleetIdle /\ SupIdle /\ SolvedIdle /\ CodecIdle /\ EpisodeInit
Next ==
    \/ Step /\ UNCHANGED <<fleetVars, supVars, solvedVars, codecVars, episodeVars>>
    \/ RecvIter /\ UNCHANGED <<fleetVars, supVars, solvedVars, codecVars, episodeVars>>
    \/ RecvDone /\ UNCHANGED <<fleetVars, supVars, solvedVars, codecVars, episodeVars>>
    \/ Emit /\ UNCHANGED <<fleetVars, supVars, solvedVars, codecVars, episodeVars>>
Spec == Init /\ [][Next]_vars

\* the same process, never left unscheduled while it can take a step
NextLive ==
    \/ StepDrain /\ UNCHANGED <<fleetVars, supVars, solvedVars, codecVars, episodeVars>>
    \/ RecvIter /\ UNCHANGED <<fleetVars, supVars, solvedVars, codecVars, episodeVars>>
    \/ RecvDone /\ UNCHANGED <<fleetVars, supVars, solvedVars, codecVars, episodeVars>>
    \/ Emit /\ UNCHANGED <<fleetVars, supVars, solvedVars, codecVars, episodeVars>>
SpecLive == Init /\ [][NextLive]_vars /\ WF_vars(NextLive)

\* either robot controller: the multi-robot one or the continuous one
InitRobots == (RobotInit \/ ContInit) /\ FleetIdle /\ SupIdle /\ SolvedIdle /\ CodecIdle /\ EpisodeInit
NextRobots ==
    \/ controller = "multi" /\ Next
    \/ ContStep /\ UNCHANGED <<fleetVars, supVars, solvedVars, codecVars, episodeVars>>
    \/ ContRecv /\ UNCHANGED <<fleetVars, supVars, solvedVars, codecVars, episodeVars>>
    \/ ContEmit /\ UNCHANGED <<fleetVars, supVars, solvedVars, codecVars, episodeVars>>
SpecRobots == InitRobots /\ [][NextRobots]_vars

\* the robots of one world running their constructors
InitFleet == RobotIdle /\ FleetInit /\ SupIdle /\ SolvedIdle /\ CodecIdle /\ EpisodeInit
NextFleet == Construct /\ UNCHANGED <<robotVars, supVars, solvedVars, codecVars, episodeVars>>
SpecFleet == InitFleet /\ [][NextFleet]_vars

\* the supervisor's environment methods
InitSup == RobotIdle /\ FleetIdle /\ SupInit /\ SolvedIdle /\ CodecIdle /\ EpisodeInit
NextSup ==
    \/ SupStep /\ UNCHANGED <<robotVars, fleetVars, solvedVars, codecVars, episodeVars>>
    \/ GetObservations /\ UNCHANGED <<robotVars, fleetVars, solvedVars, codecVars, episodeVars>>
    \/ IsDone /\ UNCHANGED <<robotVars, fleetVars, solvedVars, codecVars, episodeVars>>
    \/ DefaultObservation /\ UNCHANGED <<robotVars, fleetVars, solvedVars, codecVars, episodeVars>>
SpecSup == InitSup /\ [][NextSup]_vars

\* solved() over drawn score histories
InitSolved == RobotIdle /\ FleetIdle /\ SupIdle /\ SolvedInit /\ CodecIdle /\ EpisodeInit
NextSolved ==
    \/ AppendScore /\ UNCHANGED <<robotVars, fleetVars, supVars, codecVars, episodeVars>>
    \/ Solved /\ UNCHANGED <<robotVars, fleetVars, supVars, codecVars, episodeVars>>
SpecSolved == InitSolved /\ [][NextSolved]_vars

\* the codec over drawn lists
InitCodec == RobotIdle /\ FleetIdle /\ SupIdle /\ SolvedIdle /\ CodecInit /\ EpisodeInit
NextCodec ==
    \/ CodecEncode /\ UNCHANGED <<robotVars, fleetVars, supVars, solvedVars, episodeVars>>
    \/ CodecDecode /\ UNCHANGED <<robotVars, fleetVars, supVars, solvedVars, episodeVars>>
SpecCodec == InitCodec /\ [][NextCodec]_vars

\* episodes of the orchestrator over the supervisor
InitEpisode == RobotIdle /\ FleetIdle /\ SupIdle /\ SolvedIdle /\ CodecIdle /\ EpisodeInit
NextEpisode ==
    \/ EpisodeStep /\ UNCHANGED <<robotVars, fleetVars, solvedVars, codecVars>>
    \/ EpisodeEnd /\ UNCHANGED <<robotVars, fleetVars, codecVars>>
SpecEpisode == InitEpisode /\ [][NextEpisode]_vars

(***************************************************************************)
(* Properties.                                                             *)
(***************************************************************************)
Applies == Len(SelectSeq(tickLog, LAMBDA e : e = "apply"))
Forward == [i \in 1..NumWheels |-> MotorSpeedForward]
Backward == [i \in 1..NumWheels |-> MotorSpeedBackward]
ValidCommand(frame) == UseMessageData(SetupMotors, Decode(frame)).raised = "none"

\* C1 as stated: when the drain of a non-empty queue [f1..fn] has ended, the
\* robot is in the state that processing fn alone gives: fn's outcome on the
\* wheels the drain started with, one actuator update at most, and no
\* exception that fn does not raise.
C1_OnlyLastFrameHasEffect ==
    (pc \in {"emit", "crashed"} /\ queueAtDrain # <<>>) =>
        LET only == UseMessageData(wheelsAtDrain, Decode(Last(queueAtDrain)))
        IN  /\ wheels = only.wheels
            /\ err = only.raised
            /\ Applies = (IF only.raised = "none" THEN 1 ELSE 0)

\* C1 amended: when the drain of a non-empty queue [f1..fn] completes, every
\* frame was a valid command, each was applied in turn (n actuator updates)
\* and the wheels are those commanded by fn alone; when the drain raises, it
\* is the frame at the head of the queue that raised, the frames before it
\* were applied and the frames after it, fn included, were never read.
C1_LastWriteWinsOverValidFrames ==
    /\ (pc = "emit" /\ queueAtDrain # <<>>) =>
          /\ \A i \in 1..Len(queueAtDrain) : ValidCommand(queueAtDrain[i])
          /\ wheels = UseMessageData(wheelsAtDrain, Decode(Last(queueAtDrain))).wheels
          /\ Applies = Len(queueAtDrain)
          /\ queue = <<>>
    /\ pc = "crashed" =>
          /\ queue # <<>>
          /\ ~ValidCommand(Head(queue))
          /\ Applies = Len(queueAtDrain) - Len(queue)
          /\ \A i \in 1..Applies : ValidCommand(queueAtDrain[i])

\* C1 witness: a drain of three valid frames that ends on "0" after a "1"
C1_Witness ==
    /\ pc = "emit"
    /\ Len(queueAtDrain) = 3
    /\ queueAtDrain[2] = <<"1">>
    /\ queueAtDrain[3] = <<"0">>
    /\ wheels = Forward
    /\ wheelsAtDrain = Backward

\* C2: a step of use_message_data on a frame whose first field parses to an
\* integer other than 0 and 1 raises AssertionError and leaves the four wheel
\* velocities (and the actuator log) as they were before the frame.
C2_InvalidActionRaises ==
    [][(pc = "recv" /\ queue # <<>> /\ ParseInt(Decode(Head(queue))[1]).ok
          /\ ParseInt(Decode(Head(queue))[1]).val \notin {0, 1})
       => (pc' = "crashed" /\ err' = "AssertionError" /\ wheels' = wheels
           /\ tickLog' = tickLog)]_vars

\* C2 witness: the frame "2" raised while the wheels were driving forward
C2_Witness ==
    /\ pc = "crashed"
    /\ err = "AssertionError"
    /\ Head(queue) = <<"2">>
    /\ wheels = Forward

\* the angle the robot sent, recovered from the text of the received frame
SentAngle(msg) == CHOOSE a \in AngleMilli : Decode(FormatMilli(a)) = msg.fields

\* The decimals d.dd5 below 0.5 whose nearest double lies below the decimal:
\* round(x, 2) rounds these toward zero, every other d.dd5 away from zero.
HalfBelow == {15, 45, 75, 105, 125, 145, 155, 175, 185, 205, 215, 235, 245,
              285, 295, 305, 345, 355, 365, 415, 425, 435, 475, 485, 495}

\* the hundredth nearest to m/1000, a tie going toward zero exactly for the
\* decimals whose double lies below them
NearestCenti(m) ==
    CHOOSE c \in -50..50 :
        \/ Abs(10 * c - m) < 5
        \/ /\ Abs(10 * c - m) = 5
           /\ (Abs(m) \in HalfBelow) = (Abs(10 * c) < Abs(m))

\* The frames in other spellings with what they stand for: over, the angle
\* is beyond 0.261799388 in absolute value; done, so is the angle rounded
\* to two decimals; obs, the angle on the scale -0.23 .. 0.23 -> -1 .. 1,
\* clipped (den 0: not a number). 1e-05 is the double
\* 5902958103587057 * 2^-69, inside the range.
FormRef ==
    {[text |-> <<" ", "0", ".", "2", "7", "\n">>,
      over |-> TRUE, done |-> TRUE, obs |-> Rat(1, 1)],
     [text |-> <<".", "2", "6", "5">>,
      over |-> TRUE, done |-> TRUE, obs |-> Rat(1, 1)],
     [text |-> <<"0", ".", "2", "6", "4", "9", "9", "9", "9">>,
      over |-> TRUE, done |-> FALSE, obs |-> Rat(1, 1)],
     [text |-> <<"0", ".", "2", "6", "5", "0", "0", "0", "1">>,
      over |-> TRUE, done |-> TRUE, obs |-> Rat(1, 1)],
     [text |-> <<"0", ".", "2", "6", "4", "9", "9", "9", "9", "9", "9", "9", "9", "9",
                 "9", "9", "9", "9", "9", "9", "9", "9">>,
      over |-> TRUE, done |-> TRUE, obs |-> Rat(1, 1)],
     [text |-> <<"1", "e", "-", "0", "5">>,
      over |-> FALSE, done |-> FALSE,
      obs |-> Affine(Float("num", FALSE, <<26865, 4550, 25302, 167>>, -69), 230)],
     [text |-> <<"n", "a", "n">>,
      over |-> FALSE, done |-> FALSE, obs |-> Rat(0, 0)],
     [text |-> <<"-", "i", "n", "f">>,
      over |-> TRUE, done |-> TRUE, obs |-> Rat(-1, 1)]}
IsForm(msg) == \E r \in FormRef : msg.fields = <<r.text>>
FormOf(msg) == CHOOSE r \in FormRef : msg.fields = <<r.text>>

\* the reported angle is beyond the limit
AngleOver(msg) ==
    IF IsForm(msg) THEN FormOf(msg).over
    ELSE Abs(SentAngle(msg)) * NanoPerMilli > AngleLimitNano

\* the reported angle rounded to two decimals is beyond the limit
AngleDone(msg) ==
    IF IsForm(msg) THEN FormOf(msg).done
    ELSE NearestCenti(SentAngle(msg)) >= 27 \/ NearestCenti(SentAngle(msg)) <= -27

\* the reported angle as the observation field
AngleObs(msg) ==
    IF IsForm(msg) THEN FormOf(msg).obs
    ELSE NormalizeToRange(SentAngle(msg), -230, 230, -1, 1, TRUE)

\* an observation field kept as a double on a range
IsAffine(a) == "range" \in DOMAIN a

\* two observation fields are the same number (or both not a number)
SameRat(a, b) ==
    IF IsAffine(a) \/ IsAffine(b) THEN IsAffine(a) /\ IsAffine(b) /\ a = b
    ELSE IF a.den = 0 \/ b.den = 0 THEN a.den = 0 /\ b.den = 0
    ELSE a.num * b.den = b.num * a.den

\* an observation field is a number of [-1, 1]
InUnitRange(a) ==
    IF IsAffine(a) THEN Below(a.value, a.range, 1000)
    ELSE a.den > 0 /\ -a.den <= a.num /\ a.num <= a.den

RefDone ==
    \/ episodeScore >= 196
    \/ ~messageReceived.isNone /\ AngleDone(messageReceived)
    \/ NearestCenti(cartX) >= 40 \/ NearestCenti(cartX) <= -40

\* C3: is_done() returns the reference predicate (score > 195.0, or
\* |round(angle, 2)| > 0.261799388, or |round(cartPosition, 2)| > 0.39); it is
\* true at a rounded angle of 0.27 and false at 0.26 with the score and the
\* position in bounds; and a call changes nothing of the supervisor's state.
C3_IsDoneIsReference ==
    /\ [](supCall = "is_done" =>
            /\ lastDone = RefDone
            /\ (~messageReceived.isNone /\ messageReceived.fields = <<<<"0", ".", "2", "7">>>>
                  => lastDone)
            /\ (~messageReceived.isNone /\ messageReceived.fields = <<<<"0", ".", "2", "6">>>>
                /\ episodeScore <= 195 /\ Abs(cartX) <= 390
                  => ~lastDone))
    /\ [][supCall' = "is_done" /\ supCall # "is_done" =>
            UNCHANGED <<messageReceived, episodeScore, cartX, cartV, tipV,
                        lastObs, supErr>>]_vars

\* C3 witness: is_done() returned true on the frame "0.27", nothing else done
C3_Witness ==
    /\ supCall = "is_done"
    /\ ~messageReceived.isNone
    /\ messageReceived.fields = <<<<"0", ".", "2", "7">>>>
    /\ episodeScore = 0
    /\ cartX = 0
    /\ lastDone

\* the sum of s[lo..hi]
RECURSIVE SumRange(_, _, _)
SumRange(s, lo, hi) == IF lo > hi THEN 0 ELSE s[hi] + SumRange(s, lo, hi - 1)

\* C4: solved() is true iff the history holds more than 100 scores and its
\* last 100 scores sum to more than 100 * 195; so it is false for every
\* history of at most 100 scores and the older scores never matter.
C4_SolvedIffLast100MeanOver195 ==
    solvedResult # "none" =>
        LET n == Len(episodeScoreList)
        IN  /\ (solvedResult = "true") =
                  (n >= 101 /\ SumRange(episodeScoreList, n - 99, n) > 19500)
            /\ (n <= 100 => solvedResult = "false")

\* C4 witness: 101 scores, the last 100 of them all 196, and solved() is true
C4_Witness ==
    /\ Len(episodeScoreList) = 101
    /\ episodeScoreList[1] = 0
    /\ \A i \in 2..101 : episodeScoreList[i] = 196
    /\ solvedResult = "true"

NoComma(xs) == \A i \in 1..Len(xs) : \A j \in 1..Len(Str(xs[i])) : Str(xs[i])[j] # ","

\* C5 as stated: for every list xs without a comma in its string forms, the
\* empty list included, decoding the encoded frame gives the string form of
\* each element, same length and order.
C5_RoundTripEveryLength ==
    (codecPc = "decoded" /\ NoComma(codecIn)) =>
        /\ Len(codecOut) = Len(codecIn)
        /\ \A i \in 1..Len(codecIn) : codecOut[i] = Str(codecIn[i])

\* C5 amended: the round trip holds for every NON-EMPTY list xs without a
\* comma in its string forms (empty-string fields included); the empty list
\* is encoded as the empty frame and decoded as one empty token.
C5_RoundTripNonEmpty ==
    codecPc = "decoded" =>
        /\ (Len(codecIn) >= 1 /\ NoComma(codecIn)) =>
              /\ Len(codecOut) = Len(codecIn)
              /\ \A i \in 1..Len(codecIn) : codecOut[i] = Str(codecIn[i])
        /\ codecIn = <<>> => codecOut = <<<<>>>>

\* C5 witness: three fields, one of them the empty string, decoded in order
C5_Witness ==
    /\ codecPc = "decoded"
    /\ codecIn = <<FloatScalar(263), StrScalar(<<>>), IntScalar(-12)>>
    /\ codecOut = <<<<"0", ".", "2", "6", "3">>, <<>>, <<"-", "1", "2">>>>

\* C6: with no frame received (handle_receiver gave None) get_observations()
\* raises nothing and returns four fields with the pole angle at the zero
\* default; is_done() then raises nothing; and the default observation is
\* the zero vector of width 4.
C6_MissingMessageIsNoError ==
    /\ (supCall = "get_observations" /\ messageReceived.isNone) =>
          /\ supErr = "none"
          /\ Len(lastObs) = 4
          /\ lastObs[3] = Rat(0, 1)
    /\ (supCall = "is_done" /\ messageReceived.isNone) => supErr = "none"
    /\ supCall = "get_default_observation" =>
          lastObs = <<Rat(0, 1), Rat(0, 1), Rat(0, 1), Rat(0, 1)>>
    /\ supErr # "none" => ~messageReceived.isNone

\* C6 witness: an observation built with no frame while the cart is off centre
C6_Witness ==
    /\ supCall = "get_observations"
    /\ messageReceived.isNone
    /\ Len(lastObs) = 4
    /\ lastObs[1] # Rat(0, 800)
    /\ lastObs[3] = Rat(0, 1)

\* C7 as stated: any two distinct constructed robots have set different
\* channels on their emitters and on their receivers.
C7_ChannelsExclusive ==
    \A a, b \in Robots :
        (a # b /\ fleetChannel[a].set /\ fleetChannel[b].set) =>
            /\ fleetChannel[a].emitter # fleetChannel[b].emitter
            /\ fleetChannel[a].receiver # fleetChannel[b].receiver

\* C8: within a tick no wheel command is applied after the observation was
\* sent, and once it is sent every frame queued for the tick has been
\* decoded and applied.
C8_SendAfterEveryApply ==
    /\ \A i, j \in 1..Len(tickLog) :
          (i < j /\ tickLog[i] = "send") => tickLog[j] # "apply"
    /\ sent # <<>> => (queue = <<>> /\ Applies = Len(queueAtDrain))

\* C8 witness: two commands applied, then the observation sent
C8_Witness == tickLog = <<"apply", "apply", "send">>

TickOver == ticks > 0 /\ pc \in {"step", "crashed"}

\* C9 as stated: every stepped tick that has ended sent exactly one frame,
\* whatever was queued.
C9_OneFramePerTick == TickOver => Len(sent) = 1

\* C9 amended: never more than one frame per tick; exactly one, the encoded
\* sensor reading, in every tick whose loop body ran without a queued frame
\* raising; none in the tick a queued frame raised in.
C9_OneFramePerCompletedTick ==
    /\ Len(sent) <= 1
    /\ (ticks > 0 /\ pc = "step") =>
          (Len(sent) = 1 /\ sent[1] = FormatMilli(sensor))
    /\ pc \in {"recv", "emit", "crashed", "exited"} => sent = <<>>

\* C9 witness: a tick with three queued commands ended with one frame sent
C9_Witness ==
    /\ pc = "step"
    /\ Len(queueAtDrain) = 3
    /\ sent = <<<<"0", ".", "2", "6", "3">>>>

\* C10 as stated: whenever the angle the robot reported is more than
\* 0.261799388 in absolute value, is_done() returns true.
C10_DoneWhenAngleOverLimit ==
    (supCall = "is_done" /\ ~messageReceived.isNone
       /\ AngleOver(messageReceived))
    => lastDone

\* C12: handle_receiver entered with n queued valid frames runs exactly n
\* iterations, each reading and dropping one frame, then returns with the
\* queue empty; with n = 0 it returns without reading or touching the
\* wheels; and it always returns (or raises): the drain never blocks.
C12_DrainBoundedByQueueLength ==
    /\ [](pc = "recv" => Applies + Len(queue) = Len(queueAtDrain))
    /\ []((pc = "emit" /\ \A i \in 1..Len(queueAtDrain) : ValidCommand(queueAtDrain[i]))
            => (queue = <<>> /\ Applies = Len(queueAtDrain)))
    /\ []((pc = "emit" /\ queueAtDrain = <<>>)
            => (tickLog = <<>> /\ wheels = wheelsAtDrain))
    /\ [][(pc = "recv" /\ pc' = "recv") => Len(queue') = Len(queue) - 1]_vars
    /\ [](pc = "recv" => <>(pc # "recv"))

\* C12 witness: a drain of three valid frames returned after three iterations
C12_Witness ==
    /\ pc = "emit"
    /\ Len(queueAtDrain) = 3
    /\ tickLog = <<"apply", "apply", "apply">>
    /\ queue = <<>>

\* C14: a tick whose inbound queue was empty makes no actuator call and
\* leaves the four wheel velocities as they were; and as long as no frame
\* has arrived since construction every wheel has velocity 0.0.
C14_EmptyQueueLeavesWheels ==
    /\ (ticks > 0 /\ queueAtDrain = <<>>) => (wheels = wheelsAtDrain /\ Applies = 0)
    /\ (lastAction = -1 /\ queueAtDrain = <<>>) => wheels = <<0, 0, 0, 0>>
    /\ lastAction = -1 => wheelsAtDrain = <<0, 0, 0, 0>>

\* C14 witness: the second tick in a row with nothing queued, observation sent
C14_Witness ==
    /\ ticks = 2
    /\ lastAction = -1
    /\ queueAtDrain = <<>>
    /\ tickLog = <<"send">>
    /\ wheels = <<0, 0, 0, 0>>

\* C15: the emitter channel and the receiver channel are equal to each other
\* and to the index the constructor derives from the robot's name (the digit
\* its name ends with), and no step of the control loop changes them.
C15_ChannelsStable ==
    /\ [](/\ emitterChannel = receiverChannel
          /\ emitterChannel = DigitVal(name[Len(name)])
          /\ robot_num = emitterChannel)
    /\ [][emitterChannel' = emitterChannel /\ receiverChannel' = receiverChannel
          /\ name' = name /\ robot_num' = robot_num]_vars

\* C15 witness: after two ticks with commands the channels are as constructed
C15_Witness ==
    /\ ticks = 2
    /\ pc = "step"
    /\ lastAction = 1
    /\ name = <<"r", "o", "b", "o", "t", "1">>
    /\ emitterChannel = 1
    /\ receiverChannel = 1

\* C18: whenever an observation frame has been sent, the four wheels have
\* one common velocity, which is 5.0, -5.0 or 0.0: 5.0 iff the last applied
\* command was 0, -5.0 iff it was 1, and 0.0 iff no command was ever applied.
C18_WheelsFollowLastCommand ==
    sent # <<>> =>
        /\ \A i \in 1..4 : wheels[i] = wheels[1]
        /\ wheels[1] \in {0, 5000, -5000}
        /\ (wheels[1] = 5000) = (lastAction = 0)
        /\ (wheels[1] = -5000) = (lastAction = 1)
        /\ (wheels[1] = 0) = (lastAction = -1)

\* C18 witness: a frame was sent while the wheels drive backward after a "1"
C18_Witness ==
    /\ sent # <<>>
    /\ lastAction = 1
    /\ wheels = <<-5000, -5000, -5000, -5000>>
    /\ wheelsAtDrain = <<5000, 5000, 5000, 5000>>

\* C19 as stated: the process sits in a terminal state only after step
\* returned 1; no terminal state is reached through a 0 or -1 step result.
C19_TerminalOnlyAfterStepOne ==
    pc \notin {"step", "recv", "emit"} => stepResult = 1

\* C19 amended: the loop body (receive, then emit) runs for every step result
\* other than 1, the simulator's -1 included, and the loop is left normally
\* only when step returns 1; the one other way out is an exception raised
\* while the queue is drained, which ends the process after a 0 or -1 step.
C19_LoopLeftOnStepOneOrException ==
    /\ [](pc = "exited" => (stepResult = 1 /\ err = "none" /\ tickLog = <<>>))
    /\ [](pc = "crashed" => (stepResult \in {0, -1} /\ err # "none"))
    /\ [](pc \in {"recv", "emit"} => stepResult \in {0, -1})
    /\ [][pc = "step" => (IF stepResult' = 1 THEN pc' = "exited" ELSE pc' = "recv")]_vars

\* C19 witness: a full tick, command and observation, after step returned -1
C19_Witness ==
    /\ stepResult = -1
    /\ pc = "step"
    /\ ticks > 0
    /\ tickLog = <<"apply", "send">>

\* C11 as stated: every field of a returned observation lies in [-1, 1]
C11_ObservationInUnitRange ==
    (supCall = "get_observations" /\ supErr = "none") =>
        \A i \in 1..Len(lastObs) : InUnitRange(lastObs[i])

\* C17: get_observations() stores what the receive returned, None included,
\* whatever was stored before; with None it reports pole angle 0.0; and an
\* is_done() that follows it decides on that same frame, with the angle
\* taken as 0.0 when there was none, never on a frame of an earlier call.
C17_StaleAngleErased ==
    /\ [](supCall = "get_observations" => messageReceived = supRecv)
    /\ []((supCall = "get_observations" /\ supRecv.isNone) =>
            (messageReceived.isNone /\ supErr = "none" /\ lastObs[3] = Zero))
    /\ []((supCall = "get_observations" /\ supErr = "none" /\ ~supRecv.isNone) =>
            SameRat(lastObs[3], AngleObs(supRecv)))
    /\ [][(supCall = "get_observations" /\ supCall' = "is_done") =>
            /\ messageReceived' = supRecv
            /\ supRecv.isNone =>
                 lastDone' = (\/ episodeScore >= 196
                              \/ NearestCenti(cartX) >= 40
                              \/ NearestCenti(cartX) <= -40)
            /\ ~supRecv.isNone =>
                 lastDone' = (\/ episodeScore >= 196
                              \/ AngleDone(supRecv)
                              \/ NearestCenti(cartX) >= 40
                              \/ NearestCenti(cartX) <= -40)]_vars

\* C17 witness: a frame came in an earlier tick, none in this one, and
\* is_done() after get_observations() found the episode not done
C17_Witness ==
    /\ hadFrame
    /\ supRecv.isNone
    /\ messageReceived.isNone
    /\ supCall = "is_done"
    /\ Len(lastObs) = 4
    /\ lastObs[3] = Zero
    /\ ~lastDone

\* C16: in the orchestrator's loop every episode is ended by is_done(), at
\* step 197 at the latest (the score test fires once 196 rewards have been
\* added), never by the 200-step cap, and every score in the history is at
\* most 197.
C16_StepCapNeverEndsEpisode ==
    /\ epPhase # "cap"
    /\ epStep <= 197
    /\ epStep < StepCap
    /\ epPhase = "done" => lastDone
    /\ epPhase = "running" => (epStep = 0 \/ ~lastDone)
    /\ episodeScore = epStep
    /\ \A i \in 1..Len(episodeScoreList) :
          episodeScoreList[i] >= 1 /\ episodeScoreList[i] <= 197

\* C16 witness: an episode in which nothing went wrong, ended by the score
\* test at step 197 and entered in the history with score 197
C16_Witness ==
    /\ episodeScoreList = <<197>>
    /\ epPhase = "running"
    /\ epStep = 0
    /\ cartX = 0

\* the frame that use_message_data takes: valid for the controller or not
Accepted(frame) ==
    IF controller = "multi" THEN ValidCommand(frame)
    ELSE ParseFloat(Decode(frame)[1]).ok

====
